---- MODULE Spec2Model ----
(***************************************************************************)
(* Model of the MACSima protocol parser (src/src/macsima_parser.py) and    *)
(* of the conversion driver that runs it (src/app.py).                     *)
(*                                                                         *)
(* Python values are records [t, s, n]: t is the Python type, s the        *)
(* characters of a str (one character per element), n the number of an     *)
(* int / bool / float.  A dict is a function whose DOMAIN is the set of    *)
(* keys present; an insertion-ordered dict whose keys are computed (an     *)
(* output row) is a sequence of [k, v] pairs.  A call that raises returns  *)
(* a value whose t is the exception's class.                               *)
(***************************************************************************)
EXTENDS Integers, Sequences, FiniteSets, TLC

VARIABLES pc, data, bucket_lookup, proc_i, block_i, blocks, block_rows, call, arg, ret

vars ==
    <<pc, data, bucket_lookup, proc_i, block_i, blocks, block_rows, call, arg,
      ret>>

----------------------------------------------------------------------------
(* Bounds                                                                  *)

MaxBlocks == 4

MaxRows == 4

MaxHeaderLen == 4

MaxLabelParts == 3

MaxProcedures == 2

MaxProcedureSteps == 2

----------------------------------------------------------------------------
(* Python values                                                           *)

PyNone == [t |-> "none", s |-> <<>>, n |-> 0]

Str(x) == [t |-> "str", s |-> x, n |-> 0]

PyInt(i) == [t |-> "int", s |-> <<>>, n |-> i]

PyBool(x) == [t |-> "bool", s |-> <<>>, n |-> IF x THEN 1 ELSE 0]

AttributeError == [t |-> "AttributeError", s |-> <<>>, n |-> 0]

KeyError == [t |-> "KeyError", s |-> <<>>, n |-> 0]

ValueError == [t |-> "ValueError", s |-> <<>>, n |-> 0]

TypeError == [t |-> "TypeError", s |-> <<>>, n |-> 0]

JSONDecodeError == [t |-> "JSONDecodeError", s |-> <<>>, n |-> 0]

NameError == [t |-> "NameError", s |-> <<>>, n |-> 0]

Raised(v) ==
    v.t \in {"AttributeError", "KeyError", "ValueError", "TypeError",
             "JSONDecodeError", "NameError"}

\* Python truthiness of a value (None, "", 0 and False are falsy).
Truthy(v) ==
    CASE v.t = "none" -> FALSE
      [] v.t = "str"  -> v.s # <<>>
      [] OTHER        -> v.n # 0

\* dict.get(k, default)
Get(d, k, default) == IF k \in DOMAIN d THEN d[k] ELSE default

\* d[k] = v on a dict
DictSet(d, k, v) == [x \in (DOMAIN d) \cup {k} |-> IF x = k THEN v ELSE d[x]]

EmptyDict == [x \in {} |-> PyNone]

EmptyStr == Str(<<>>)

----------------------------------------------------------------------------
(* Strings                                                                 *)

Lower == {"a", "b", "c", "d", "e", "f", "g", "h", "i", "j", "k", "l", "m",
          "n", "o", "p", "q", "r", "s", "t", "u", "v", "w", "x", "y", "z"}

Upper == {"A", "B", "C", "D", "E", "F", "G", "H", "I", "J", "K", "L", "M",
          "N", "O", "P", "Q", "R", "S", "T", "U", "V", "W", "X", "Y", "Z"}

\* str.startswith
StartsWith(s, prefix) ==
    Len(s) >= Len(prefix) /\ SubSeq(s, 1, Len(prefix)) = prefix

\* str.replace(old, new): every non-overlapping occurrence, left to right.
RECURSIVE Replace(_, _, _)
Replace(s, old, new) ==
    IF s = <<>> THEN <<>>
    ELSE IF StartsWith(s, old)
         THEN new \o Replace(SubSeq(s, Len(old) + 1, Len(s)), old, new)
         ELSE <<Head(s)>> \o Replace(Tail(s), old, new)

\* str.split(sep)[-1] for a one-character sep: what follows the last sep.
SplitLast(s, sep) ==
    IF \E i \in 1..Len(s) : s[i] = sep
    THEN LET i == CHOOSE j \in 1..Len(s) : s[j] = sep
                     /\ \A m \in (j + 1)..Len(s) : s[m] # sep
         IN SubSeq(s, i + 1, Len(s))
    ELSE s

ProtocolBlockType_ ==
    <<"P", "r", "o", "t", "o", "c", "o", "l", "B", "l", "o", "c", "k",
      "T", "y", "p", "e", "_">>

RunCycle == <<"R", "u", "n", "C", "y", "c", "l", "e">>

Erase == <<"E", "r", "a", "s", "e">>

Scan == <<"S", "c", "a", "n">>

ProtocolBlockType_RunCycle == ProtocolBlockType_ \o RunCycle

ProtocolBlockType_Erase == ProtocolBlockType_ \o Erase

ProtocolBlockType_Scan == ProtocolBlockType_ \o Scan

Magnification_ ==
    <<"M", "a", "g", "n", "i", "f", "i", "c", "a", "t", "i", "o", "n", "_">>

Magnification_20x == Magnification_ \o <<"2", "0", "x">>

Magnification_40x == Magnification_ \o <<"4", "0", "x">>

NA == <<"N", "/", "A">>

UnknownBlockType ==
    <<"U", "n", "k", "n", "o", "w", "n", " ", "b", "l", "o", "c", "k", " ",
      "t", "y", "p", "e">>

UnknownRunCycleNumber ==
    <<"U", "n", "k", "n", "o", "w", "n", " ", "r", "u", "n", " ", "c", "y",
      "c", "l", "e", " ", "n", "u", "m", "b", "e", "r">>

----------------------------------------------------------------------------
(* Step Sequencer                                                          *)

\* block.get("blockType") == "ProtocolBlockType_RunCycle"
IsRunCycleBlock(block) ==
    Get(block, "blockType", PyNone) = Str(ProtocolBlockType_RunCycle)

\* Mutant: the counter is added to the number a block already carries.
RECURSIVE NumberFrom_adding(_, _)
NumberFrom_adding(bs, n) ==
    IF bs = <<>> THEN <<>>
    ELSE IF IsRunCycleBlock(Head(bs))
         THEN <<DictSet(Head(bs), "runCycleNumber",
                    PyInt(Get(Head(bs), "runCycleNumber", PyInt(0)).n + n + 1))>>
                  \o NumberFrom_adding(Tail(bs), n + 1)
         ELSE <<Head(bs)>> \o NumberFrom_adding(Tail(bs), n)

\* The loop of add_numbers_to_run_cycles from counter value n on.  The
\* assignment block["runCycleNumber"] = ... writes into the caller's dict.
RECURSIVE NumberFrom(_, _)
NumberFrom(bs, n) ==
    IF bs = <<>> THEN <<>>
    ELSE IF IsRunCycleBlock(Head(bs))
         THEN <<DictSet(Head(bs), "runCycleNumber", PyInt(n + 1))>>
                  \o NumberFrom(Tail(bs), n + 1)
         ELSE <<Head(bs)>> \o NumberFrom(Tail(bs), n)

\* Mutant: the counter starts at 1, so the first RunCycle step gets 2.
add_numbers_counter_from_one(bs) == NumberFrom(bs, 1)

add_numbers_to_run_cycles(bs) == NumberFrom(bs, 0)

\* Mutant: the new block is built from the kind and the magnification only
\* instead of being a copy of the block.
RECURSIVE PropagateFrom_without_copy(_, _)
PropagateFrom_without_copy(bs, last_mag) ==
    IF bs = <<>> THEN <<>>
    ELSE LET block == Head(bs)
             mag   == IF Truthy(Get(block, "magnification", PyNone))
                      THEN block["magnification"]
                      ELSE last_mag
         IN <<[k \in (DOMAIN block \cap {"blockType"}) \cup {"magnification"} |->
                  IF k = "magnification" THEN mag ELSE block[k]]>>
                \o PropagateFrom_without_copy(Tail(bs), mag)

\* The loop of propagate_magnification with last_mag as carried so far.
RECURSIVE PropagateFrom(_, _)
PropagateFrom(bs, last_mag) ==
    IF bs = <<>> THEN <<>>
    ELSE LET block == Head(bs)
             mag   == IF Truthy(Get(block, "magnification", PyNone))
                      THEN block["magnification"]
                      ELSE last_mag
         IN <<DictSet(block, "magnification", mag)>>
                \o PropagateFrom(Tail(bs), mag)

\* Mutant: every step keeps its own magnification, nothing is inherited.
propagate_own_magnification(bs) ==
    [i \in 1..Len(bs) |->
        DictSet(bs[i], "magnification", Get(bs[i], "magnification", PyNone))]

propagate_magnification(bs) == PropagateFrom(bs, PyNone)

get_run_cycle_number(block) ==
    Get(block, "runCycleNumber", Str(UnknownRunCycleNumber))

get_block_type(block) ==
    LET block_type == Get(block, "blockType", Str(UnknownBlockType))
    IN IF block_type.t # "str" THEN AttributeError
       ELSE IF StartsWith(block_type.s, ProtocolBlockType_)
            THEN Str(Replace(block_type.s, ProtocolBlockType_, <<>>))
            ELSE block_type

get_block_magnification(block) ==
    LET magnification == Get(block, "magnification", Str(NA))
    IN IF magnification = Str(NA) THEN magnification
       ELSE IF magnification.t # "str" THEN AttributeError
       ELSE IF StartsWith(magnification.s, Magnification_)
            THEN Str(Replace(magnification.s, Magnification_, <<>>))
            ELSE magnification

----------------------------------------------------------------------------
(* Column names, channel names and categorical labels                      *)

RunCycleNumber ==
    <<"R", "u", "n", "C", "y", "c", "l", "e", "N", "u", "m",
     "b", "e", "r">>

BlockType ==
    <<"B", "l", "o", "c", "k", "T", "y", "p", "e">>

Antigen ==
    <<"A", "n", "t", "i", "g", "e", "n">>

Channel ==
    <<"C", "h", "a", "n", "n", "e", "l">>

Magnification ==
    <<"M", "a", "g", "n", "i", "f", "i", "c", "a", "t", "i",
     "o", "n">>

Clone ==
    <<"C", "l", "o", "n", "e">>

DilutionFactor ==
    <<"D", "i", "l", "u", "t", "i", "o", "n", "F", "a", "c",
     "t", "o", "r">>

IncubationTime ==
    <<"I", "n", "c", "u", "b", "a", "t", "i", "o", "n", "T",
     "i", "m", "e">>

ReagentExposure ==
    <<"R", "e", "a", "g", "e", "n", "t", "E", "x", "p", "o",
     "s", "u", "r", "e">>

Coefficient ==
    <<"C", "o", "e", "f", "f", "i", "c", "i", "e", "n", "t">>

ActualExposure ==
    <<"A", "c", "t", "u", "a", "l", "E", "x", "p", "o", "s",
     "u", "r", "e">>

ErasingMethod ==
    <<"E", "r", "a", "s", "i", "n", "g", "M", "e", "t", "h",
     "o", "d">>

BleachingEnergy ==
    <<"B", "l", "e", "a", "c", "h", "i", "n", "g", "E", "n",
     "e", "r", "g", "y">>

ValidatedFor ==
    <<"V", "a", "l", "i", "d", "a", "t", "e", "d", "F", "o",
     "r">>

Antibody ==
    <<"A", "n", "t", "i", "b", "o", "d", "y">>

AntibodyType ==
    <<"A", "n", "t", "i", "b", "o", "d", "y", "T", "y", "p",
     "e">>

HostSpecies ==
    <<"H", "o", "s", "t", "S", "p", "e", "c", "i", "e", "s">>

Isotype ==
    <<"I", "s", "o", "t", "y", "p", "e">>

Manufacturer ==
    <<"M", "a", "n", "u", "f", "a", "c", "t", "u", "r", "e",
     "r">>

OrderNumber ==
    <<"O", "r", "d", "e", "r", "N", "u", "m", "b", "e", "r">>

Species ==
    <<"S", "p", "e", "c", "i", "e", "s">>

Name ==
    <<"N", "a", "m", "e">>

DAPI ==
    <<"D", "A", "P", "I">>

FITC ==
    <<"F", "I", "T", "C">>

PE ==
    <<"P", "E">>

APC ==
    <<"A", "P", "C">>

Vio780 ==
    <<"V", "i", "o", "7", "8", "0">>

Unknown ==
    <<"U", "n", "k", "n", "o", "w", "n">>

FluorochromeType_ ==
    <<"F", "l", "u", "o", "r", "o", "c", "h", "r", "o", "m", "e", "T", "y",
      "p", "e", "_">>

FluorochromeType_None == FluorochromeType_ \o <<"N", "o", "n", "e">>

ErasingMethod_Bleaching ==
    ErasingMethod \o <<"_", "B", "l", "e", "a", "c", "h", "i", "n", "g">>

PyList(x) == [t |-> "list", s |-> x, n |-> 0]

PyDict(f) == [t |-> "dict", s |-> f, n |-> 0]

\* A float, held exactly: n is the value times 100.
PyFloat100(h) == [t |-> "float", s |-> <<>>, n |-> h]

----------------------------------------------------------------------------
(* Table Layout Formatter: header formatting                               *)

\* Mutant: only the first word of the header is kept.
RECURSIVE format_column_header_first_word(_)
format_column_header_first_word(header) ==
    IF header = <<>> THEN <<>>
    ELSE IF Len(header) >= 2 /\ header[1] \in Lower /\ header[2] \in Upper
    THEN <<header[1]>>
    ELSE IF /\ Len(header) >= 3
            /\ header[1] \in Upper
            /\ header[2] \in Upper
            /\ header[3] \in Lower
    THEN <<header[1]>>
    ELSE <<header[1]>> \o format_column_header_first_word(Tail(header))

\* re.sub(r'([a-z])([A-Z])|([A-Z])([A-Z][a-z])', r'\1\3\n\2\4', header):
\* matches are found left to right and do not overlap.
RECURSIVE format_column_header(_)
format_column_header(header) ==
    IF header = <<>> THEN <<>>
    ELSE IF Len(header) >= 2 /\ header[1] \in Lower /\ header[2] \in Upper
    THEN <<header[1], "\n", header[2]>>
             \o format_column_header(SubSeq(header, 3, Len(header)))
    ELSE IF /\ Len(header) >= 3
            /\ header[1] \in Upper
            /\ header[2] \in Upper
            /\ header[3] \in Lower
    THEN <<header[1], "\n", header[2], header[3]>>
             \o format_column_header(SubSeq(header, 4, Len(header)))
    ELSE <<header[1]>> \o format_column_header(Tail(header))

\* d[k] = v on an insertion-ordered dict: an existing key keeps its place.
OrderedSet(d, k, v) ==
    IF \E i \in 1..Len(d) : d[i].k = k
    THEN [i \in 1..Len(d) |-> IF d[i].k = k THEN [k |-> k, v |-> v] ELSE d[i]]
    ELSE Append(d, [k |-> k, v |-> v])

\* The dict comprehension of format_dict_headers over the items from i on.
RECURSIVE FormatItems(_, _, _)
FormatItems(data_dict, i, out) ==
    IF i > Len(data_dict) THEN out
    ELSE FormatItems(data_dict, i + 1,
             OrderedSet(out, format_column_header(data_dict[i].k),
                        data_dict[i].v))

format_dict_headers(data_dict) == FormatItems(data_dict, 1, <<>>)

\* row.get(key, default) on an insertion-ordered dict
RowGet(row, key, default) ==
    IF \E i \in 1..Len(row) : row[i].k = key
    THEN row[CHOOSE i \in 1..Len(row) : row[i].k = key].v
    ELSE default

RowKeys(row) == [i \in 1..Len(row) |-> row[i].k]

----------------------------------------------------------------------------
(* Step Row Dispatcher                                                     *)

column_order ==
    <<RunCycleNumber, BlockType, Antigen, Channel, Magnification, Clone,
      DilutionFactor, IncubationTime, ReagentExposure, Coefficient,
      ActualExposure, ErasingMethod, BleachingEnergy, ValidatedFor, Antibody,
      AntibodyType, HostSpecies, Isotype, Manufacturer, OrderNumber, Species,
      Name>>

\* Mutant: only the columns that were passed are put into the row.
create_row_of_given_values(values) ==
    SelectSeq([i \in 1..Len(column_order) |->
                  [k |-> column_order[i],
                   v |-> Get(values, column_order[i], EmptyStr)]],
              LAMBDA item : item.k \in DOMAIN values)

\* values: the keyword arguments, a dict keyed by column name.
create_ordered_row(values) ==
    [i \in 1..Len(column_order) |->
        [k |-> column_order[i], v |-> Get(values, column_order[i], EmptyStr)]]

channel_order ==
    <<[key |-> "DetectionChannel_1", chan_name |-> DAPI],
      [key |-> "DetectionChannel_2", chan_name |-> FITC],
      [key |-> "DetectionChannel_3", chan_name |-> PE],
      [key |-> "DetectionChannel_4", chan_name |-> APC],
      [key |-> "DetectionChannel_5", chan_name |-> Vio780]>>

FIELDNAMES ==
    {"Antigen", "Clone", "DilutionFactor", "IncubationTime",
     "ReagentExposureTime", "ExposureCoefficient", "ActualExposureTime",
     "ErasingMethod", "BleachingEnergy", "ValidatedFor", "Antibody",
     "AntibodyType", "HostSpecies", "Isotype", "Manufacturer", "Name",
     "OrderNumber", "Species"}

\* The loop of get_erase_channel_info over the channels from i on; photos
\* holds block["photos"].values() in order.
RECURSIVE EraseChannelsFrom(_, _, _)
EraseChannelsFrom(photos, i, out) ==
    IF i > Len(photos) THEN PyList(out)
    ELSE LET dc == photos[i] IN
         IF /\ Truthy(Get(dc, "isEnabled", PyNone))
            /\ Get(dc, "fluorochromeType", PyNone) # Str(FluorochromeType_None)
         THEN IF "fluorochromeType" \notin DOMAIN dc THEN KeyError
              ELSE IF dc["fluorochromeType"].t # "str" THEN AttributeError
              ELSE EraseChannelsFrom(photos, i + 1,
                       Append(out,
                           [Channel |->
                                Str(SplitLast(dc["fluorochromeType"].s, "_")),
                            ChannelInfo |->
                                [BleachingEnergy |->
                                     Get(dc, "bleachingEnergy", EmptyStr)]]))
         ELSE EraseChannelsFrom(photos, i + 1, out)

get_erase_channel_info(block) ==
    EraseChannelsFrom(Get(block, "photos", <<>>), 1, <<>>)

\* "ActualExposureTime" of get_run_cycle_channel_info.
ActualExposureTime(reagent, dc) ==
    IF /\ Truthy(Get(reagent, "exposureTime", PyNone))
       /\ Get(dc, "exposureTimeAndCoefficient", EmptyDict) # EmptyDict
    THEN PyFloat100(
             Get(reagent, "exposureTime", PyInt(0)).n
                 * Get(Get(dc, "exposureTimeAndCoefficient", EmptyDict),
                       "timeCoefficient", PyInt(0)).n)
    ELSE EmptyStr

\* Mutant: the settings of a slot are reported whether or not the slot
\* carries a reference.
ChannelInfoOf_without_guard(dc, lookup) ==
    LET bucket_id == Get(dc, "bucketId", EmptyStr)
        reagent   == Get(lookup, bucket_id, EmptyDict)
    IN    [Antigen |-> Get(reagent, "antigen", EmptyStr),
          Clone |-> Get(reagent, "clone", EmptyStr),
          DilutionFactor |-> Get(dc, "dilutionFactor", EmptyStr),
          IncubationTime |-> Get(dc, "incubationTime", EmptyStr),
          ReagentExposureTime |-> Get(reagent, "exposureTime", EmptyStr),
          ExposureCoefficient |->
              Get(Get(dc, "exposureTimeAndCoefficient", EmptyDict),
                  "timeCoefficient", EmptyStr),
          ActualExposureTime |-> ActualExposureTime(reagent, dc),
          ErasingMethod |->
              IF Truthy(Get(dc, "erasingMethod", PyNone))
              THEN Str(SplitLast(Get(dc, "erasingMethod", EmptyStr).s, "_"))
              ELSE EmptyStr,
          BleachingEnergy |-> Get(dc, "bleachingEnergy", EmptyStr),
          ValidatedFor |-> Get(reagent, "supportedFixationMethods", EmptyStr),
          Antibody |-> Get(reagent, "Antibody", EmptyStr),
          AntibodyType |-> Get(reagent, "AntibodyType", EmptyStr),
          HostSpecies |-> Get(reagent, "HostSpecies", EmptyStr),
          Isotype |-> Get(reagent, "Isotype", EmptyStr),
          Manufacturer |-> Get(reagent, "Manufacturer", EmptyStr),
          Name |-> Get(reagent, "Name", EmptyStr),
          OrderNumber |-> Get(reagent, "OrderNumber", EmptyStr),
          Species |-> Get(reagent, "Species", EmptyStr)]

\* The body of the loop of get_run_cycle_channel_info for one slot.
ChannelInfoOf(dc, lookup) ==
    LET bucket_id == Get(dc, "bucketId", EmptyStr)
        reagent   == Get(lookup, bucket_id, EmptyDict)
    IN IF Truthy(bucket_id)
       THEN [Antigen |-> Get(reagent, "antigen", EmptyStr),
             Clone |-> Get(reagent, "clone", EmptyStr),
             DilutionFactor |-> Get(dc, "dilutionFactor", EmptyStr),
             IncubationTime |-> Get(dc, "incubationTime", EmptyStr),
             ReagentExposureTime |-> Get(reagent, "exposureTime", EmptyStr),
             ExposureCoefficient |->
                 Get(Get(dc, "exposureTimeAndCoefficient", EmptyDict),
                     "timeCoefficient", EmptyStr),
             ActualExposureTime |-> ActualExposureTime(reagent, dc),
             ErasingMethod |->
                 IF Truthy(Get(dc, "erasingMethod", PyNone))
                 THEN Str(SplitLast(Get(dc, "erasingMethod", EmptyStr).s, "_"))
                 ELSE EmptyStr,
             BleachingEnergy |-> Get(dc, "bleachingEnergy", EmptyStr),
             ValidatedFor |-> Get(reagent, "supportedFixationMethods", EmptyStr),
             Antibody |-> Get(reagent, "Antibody", EmptyStr),
             AntibodyType |-> Get(reagent, "AntibodyType", EmptyStr),
             HostSpecies |-> Get(reagent, "HostSpecies", EmptyStr),
             Isotype |-> Get(reagent, "Isotype", EmptyStr),
             Manufacturer |-> Get(reagent, "Manufacturer", EmptyStr),
             Name |-> Get(reagent, "Name", EmptyStr),
             OrderNumber |-> Get(reagent, "OrderNumber", EmptyStr),
             Species |-> Get(reagent, "Species", EmptyStr)]
       ELSE [f \in FIELDNAMES |-> EmptyStr]

get_run_cycle_channel_info(block, lookup) ==
    LET dct_reagents == Get(block, "reagents", EmptyDict)
    IN IF dct_reagents = EmptyDict THEN PyList(<<>>)
       ELSE PyList([i \in 1..Len(channel_order) |->
                [Channel |-> Str(channel_order[i].chan_name),
                 ChannelInfo |->
                     ChannelInfoOf(
                         Get(dct_reagents, channel_order[i].key, EmptyDict),
                         lookup)]])

----------------------------------------------------------------------------
(* Reagent Index Builder                                                   *)

\* Mutant: the first link of a slot is kept and later links are ignored.
RECURSIVE LinksFrom_first_wins(_, _, _)
LinksFrom_first_wins(links, i, bucket_to_reagent_id) ==
    IF i > Len(links) THEN bucket_to_reagent_id
    ELSE LET bid == Get(links[i], "bucketId", PyNone)
             rid == Get(Get(links[i], "reagentId", EmptyDict), "itemId", PyNone)
         IN LinksFrom_first_wins(links, i + 1,
                IF Truthy(bid) /\ Truthy(rid)
                       /\ bid \notin DOMAIN bucket_to_reagent_id
                THEN DictSet(bucket_to_reagent_id, bid, rid)
                ELSE bucket_to_reagent_id)

\* The inner loop of build_bucket_lookup over the links of one procedure.
RECURSIVE LinksFrom(_, _, _)
LinksFrom(links, i, bucket_to_reagent_id) ==
    IF i > Len(links) THEN bucket_to_reagent_id
    ELSE LET bid == Get(links[i], "bucketId", PyNone)
             rid == Get(Get(links[i], "reagentId", EmptyDict), "itemId", PyNone)
         IN LinksFrom(links, i + 1,
                IF Truthy(bid) /\ Truthy(rid)
                THEN DictSet(bucket_to_reagent_id, bid, rid)
                ELSE bucket_to_reagent_id)

\* The outer loop of build_bucket_lookup over the procedures.
RECURSIVE ProceduresFrom(_, _, _)
ProceduresFrom(procedures, p, bucket_to_reagent_id) ==
    IF p > Len(procedures) THEN bucket_to_reagent_id
    ELSE ProceduresFrom(procedures, p + 1,
             LinksFrom(Get(procedures[p], "reagents", <<>>), 1,
                       bucket_to_reagent_id))

\* The metadata build_bucket_lookup keeps of one catalogue entry r.
CatalogueFields(r) ==
    [antigen |-> Get(r, "antigen", Str(Unknown)),
     clone |-> Get(r, "clone", Str(NA)),
     exposureTime |-> Get(r, "exposureTime", PyInt(0)),
     supportedFixationMethods |-> Get(r, "supportedFixationMethods", EmptyStr),
     Antibody |-> Get(r, "antibody", EmptyStr),
     AntibodyType |-> Get(r, "antibodyType", EmptyStr),
     HostSpecies |-> Get(r, "hostSpecies", EmptyStr),
     Isotype |-> Get(r, "isotype", EmptyStr),
     Manufacturer |-> Get(r, "manufacturer", EmptyStr),
     Name |-> Get(r, "name", EmptyStr),
     OrderNumber |-> Get(r, "orderNumber", EmptyStr),
     Species |-> Get(r, "species", EmptyStr)]

\* The dict comprehension that builds catalogue: a later entry with the
\* same id replaces an earlier one.
RECURSIVE CatalogueFrom(_, _, _)
CatalogueFrom(reagents, i, catalogue) ==
    IF i > Len(reagents) THEN catalogue
    ELSE CatalogueFrom(reagents, i + 1,
             DictSet(catalogue, reagents[i]["id"], CatalogueFields(reagents[i])))

\* Mutant: a link to an identifier the catalogue lacks is given an entry of
\* placeholders.
build_bucket_lookup_with_placeholders(doc) ==
    LET bucket_to_reagent_id ==
            ProceduresFrom(Get(doc, "procedures", <<>>), 1, EmptyDict)
        reagents == Get(doc, "reagents", <<>>)
        catalogue == CatalogueFrom(reagents, 1, EmptyDict)
    IN IF \E i \in 1..Len(reagents) : "id" \notin DOMAIN reagents[i]
       THEN KeyError
       ELSE PyDict([bid \in DOMAIN bucket_to_reagent_id |->
                Get(catalogue, bucket_to_reagent_id[bid],
                    CatalogueFields(EmptyDict))])

build_bucket_lookup(doc) ==
    LET bucket_to_reagent_id ==
            ProceduresFrom(Get(doc, "procedures", <<>>), 1, EmptyDict)
        reagents == Get(doc, "reagents", <<>>)
        catalogue == CatalogueFrom(reagents, 1, EmptyDict)
    IN IF \E i \in 1..Len(reagents) : "id" \notin DOMAIN reagents[i]
       THEN KeyError
       ELSE PyDict([bid \in DOMAIN bucket_to_reagent_id |->
                Get(catalogue, bucket_to_reagent_id[bid], EmptyDict)])

----------------------------------------------------------------------------
(* process_block                                                           *)

\* The rows of an Erase block.
EraseRows(channels, block_type, magnification, run_cycle_number) ==
    [i \in 1..Len(channels) |->
        format_dict_headers(create_ordered_row(
            (RunCycleNumber :> run_cycle_number)
                @@ (BlockType :> block_type)
                @@ (Magnification :> magnification)
                @@ (Channel :> channels[i].Channel)
                @@ (BleachingEnergy :> channels[i].ChannelInfo.BleachingEnergy)))]

\* The rows of a RunCycle block.
RunCycleRows(channels, block_type, magnification, run_cycle_number) ==
    [i \in 1..Len(channels) |->
        LET cc == channels[i].ChannelInfo IN
        format_dict_headers(create_ordered_row(
            (RunCycleNumber :> run_cycle_number)
                @@ (BlockType :> block_type)
                @@ (Antigen :> Get(cc, "Antigen", EmptyStr))
                @@ (Channel :> channels[i].Channel)
                @@ (Magnification :> magnification)
                @@ (Clone :> Get(cc, "Clone", EmptyStr))
                @@ (DilutionFactor :> Get(cc, "DilutionFactor", EmptyStr))
                @@ (IncubationTime :> Get(cc, "IncubationTime", EmptyStr))
                @@ (ReagentExposure :> Get(cc, "ReagentExposureTime", EmptyStr))
                @@ (Coefficient :> Get(cc, "ExposureCoefficient", EmptyStr))
                @@ (ActualExposure :> Get(cc, "ActualExposureTime", EmptyStr))
                @@ (ErasingMethod :> Get(cc, "ErasingMethod", EmptyStr))
                @@ (BleachingEnergy :> Get(cc, "BleachingEnergy", EmptyStr))
                @@ (ValidatedFor :> Get(cc, "ValidatedFor", EmptyStr))
                @@ (Antibody :> Get(cc, "Antibody", EmptyStr))
                @@ (AntibodyType :> Get(cc, "AntibodyType", EmptyStr))
                @@ (HostSpecies :> Get(cc, "HostSpecies", EmptyStr))
                @@ (Isotype :> Get(cc, "Isotype", EmptyStr))
                @@ (Manufacturer :> Get(cc, "Manufacturer", EmptyStr))
                @@ (OrderNumber :> Get(cc, "OrderNumber", EmptyStr))
                @@ (Species :> Get(cc, "Species", EmptyStr))
                @@ (Name :> Get(cc, "Name", EmptyStr))))]

\* Returns the list of rows, or the exception a helper raised.
process_block(block, lookup) ==
    LET block_type == get_block_type(block)
        magnification == get_block_magnification(block)
        run_cycle_number ==
            IF block_type = Str(RunCycle) THEN get_run_cycle_number(block)
            ELSE EmptyStr
        erase == get_erase_channel_info(block)
    IN IF Raised(block_type) THEN block_type
       ELSE IF Raised(magnification) THEN magnification
       ELSE IF block_type = Str(Erase)
       THEN IF Raised(erase) THEN erase
            ELSE PyList(EraseRows(erase.s, block_type, magnification,
                                  run_cycle_number))
       ELSE IF block_type # Str(RunCycle)
       THEN PyList(<<format_dict_headers(create_ordered_row(
                (RunCycleNumber :> run_cycle_number)
                    @@ (BlockType :> block_type)
                    @@ (Magnification :> magnification)))>>)
       ELSE PyList(RunCycleRows(
                get_run_cycle_channel_info(block, lookup).s,
                block_type, magnification, run_cycle_number))

----------------------------------------------------------------------------
(* Table Layout Formatter: group separation                                *)

\* Mutant: the blank row takes the place of the row that starts the new
\* group instead of being put before it.
RECURSIVE BlankLinesFrom_replacing(_, _, _, _)
BlankLinesFrom_replacing(rows, i, prev_run_cycle, result) ==
    IF i > Len(rows) THEN result
    ELSE LET row == rows[i]
             current_run_cycle ==
                 RowGet(row, format_column_header(RunCycleNumber), EmptyStr)
             blank_row == [j \in 1..Len(row) |-> [k |-> row[j].k, v |-> EmptyStr]]
         IN BlankLinesFrom_replacing(rows, i + 1,
                IF current_run_cycle # EmptyStr THEN current_run_cycle
                ELSE prev_run_cycle,
                IF /\ prev_run_cycle # PyNone
                   /\ current_run_cycle # EmptyStr
                   /\ current_run_cycle # prev_run_cycle
                   /\ prev_run_cycle # EmptyStr
                THEN Append(result, blank_row)
                ELSE Append(result, row))

\* The loop of add_blank_lines_between_run_cycles over the rows from i on.
RECURSIVE BlankLinesFrom(_, _, _, _)
BlankLinesFrom(rows, i, prev_run_cycle, result) ==
    IF i > Len(rows) THEN result
    ELSE LET row == rows[i]
             current_run_cycle ==
                 RowGet(row, format_column_header(RunCycleNumber), EmptyStr)
             blank_row == [j \in 1..Len(row) |-> [k |-> row[j].k, v |-> EmptyStr]]
         IN BlankLinesFrom(rows, i + 1,
                IF current_run_cycle # EmptyStr THEN current_run_cycle
                ELSE prev_run_cycle,
                IF /\ prev_run_cycle # PyNone
                   /\ current_run_cycle # EmptyStr
                   /\ current_run_cycle # prev_run_cycle
                   /\ prev_run_cycle # EmptyStr
                THEN result \o <<blank_row, row>>
                ELSE Append(result, row))

add_blank_lines_between_run_cycles(rows) ==
    BlankLinesFrom(rows, 1, PyNone, <<>>)

----------------------------------------------------------------------------
(* The conversion of one document (process_json_to_excel, and the same     *)
(* steps in the parser's __main__), from the loaded document on.           *)
(*   pc            position in the conversion                              *)
(*   data          the loaded document                                     *)
(*   bucket_lookup the Reagent Index                                       *)
(*   proc_i, block_i  procedure and block the two loops stand at           *)
(*   blocks        the step list of procedure proc_i being converted            *)
(*   block_rows    the rows of the Steps table gathered so far             *)
(*   call, arg, ret  the last function called, its argument and what it    *)
(*                 returned (or raised)                                    *)

\* bucket_lookup = build_bucket_lookup(data)
BuildBucketLookup ==
    /\ pc = "loaded"
    /\ call' = "build_bucket_lookup"
    /\ arg' = data
    /\ ret' = build_bucket_lookup(data)
    /\ IF Raised(build_bucket_lookup(data))
       THEN pc' = "raised" /\ UNCHANGED bucket_lookup
       ELSE pc' = "proc" /\ bucket_lookup' = build_bucket_lookup(data).s
    /\ UNCHANGED <<data, proc_i, block_i, blocks, block_rows>>

\* blocks = add_numbers_to_run_cycles(proc["blocks"]); the dicts of the
\* returned list are the document's own.
NumberRunCycles ==
    /\ pc = "proc"
    /\ proc_i <= Len(data["procedures"])
    /\ call' = "add_numbers_to_run_cycles"
    /\ arg' = data["procedures"][proc_i]["blocks"]
    /\ ret' = add_numbers_to_run_cycles(data["procedures"][proc_i]["blocks"])
    /\ blocks' = ret'
    /\ data' = [data EXCEPT !["procedures"][proc_i]["blocks"] = ret']
    /\ pc' = "numbered"
    /\ UNCHANGED <<bucket_lookup, proc_i, block_i, block_rows>>

\* blocks = propagate_magnification(blocks); a procedure without blocks
\* is finished here.
PropagateMagnification ==
    /\ pc = "numbered"
    /\ call' = "propagate_magnification"
    /\ arg' = blocks
    /\ ret' = propagate_magnification(blocks)
    /\ blocks' = ret'
    /\ IF blocks = <<>>
       THEN pc' = "proc" /\ proc_i' = proc_i + 1 /\ UNCHANGED block_i
       ELSE pc' = "blocks" /\ block_i' = 1 /\ UNCHANGED proc_i
    /\ UNCHANGED <<data, bucket_lookup, block_rows>>

\* block_rows.extend(process_block(b, bucket_lookup)); after the last
\* block the loop over the procedures goes on.
ProcessBlock ==
    /\ pc = "blocks"
    /\ call' = "process_block"
    /\ arg' = blocks[block_i]
    /\ ret' = process_block(blocks[block_i], bucket_lookup)
    /\ IF Raised(ret')
       THEN pc' = "raised" /\ UNCHANGED <<proc_i, block_i, block_rows>>
       ELSE /\ block_rows' = block_rows \o ret'.s
            /\ IF block_i = Len(blocks)
               THEN pc' = "proc" /\ proc_i' = proc_i + 1 /\ UNCHANGED block_i
               ELSE block_i' = block_i + 1 /\ UNCHANGED <<pc, proc_i>>
    /\ UNCHANGED <<data, bucket_lookup, blocks>>

\* block_rows = add_blank_lines_between_run_cycles(block_rows)
AddBlankLines ==
    /\ pc = "proc"
    /\ proc_i > Len(data["procedures"])
    /\ call' = "add_blank_lines_between_run_cycles"
    /\ arg' = block_rows
    /\ ret' = add_blank_lines_between_run_cycles(block_rows)
    /\ block_rows' = ret'
    /\ pc' = "separated"
    /\ UNCHANGED <<data, bucket_lookup, proc_i, block_i, blocks>>

Next ==
    \/ BuildBucketLookup
    \/ NumberRunCycles
    \/ PropagateMagnification
    \/ ProcessBlock
    \/ AddBlankLines

----------------------------------------------------------------------------
(* SpecSeq: the Step Sequencer on the step list of one procedure; the      *)
(* steps carry a kind and an optional magnification.                       *)

SeqKinds == {Str(ProtocolBlockType_Scan), Str(ProtocolBlockType_RunCycle)}

SeqMagnifications ==
    {PyNone, EmptyStr, Str(Magnification_20x), Str(Magnification_40x)}

SeqBlocks ==
    {[blockType |-> k] : k \in SeqKinds}
        \cup {[blockType |-> k, magnification |-> m] :
                  k \in SeqKinds, m \in SeqMagnifications}

StepLists == UNION {[1..n -> SeqBlocks] : n \in 0..MaxBlocks}

SeqInit ==
    /\ pc = "proc"
    /\ \E steps \in StepLists :
           data = [procedures |-> <<[blocks |-> steps]>>, reagents |-> <<>>]
    /\ bucket_lookup = EmptyDict
    /\ proc_i = 1
    /\ block_i = 1
    /\ blocks = <<>>
    /\ block_rows = <<>>
    /\ call = ""
    /\ arg = PyNone
    /\ ret = PyNone

\* magnification = get_block_magnification(block), as process_block calls
\* it, on every block of the sequenced list
SeqMagnification ==
    /\ pc = "blocks"
    /\ call' = "get_block_magnification"
    /\ arg' = blocks
    /\ ret' = [i \in 1..Len(blocks) |-> get_block_magnification(blocks[i])]
    /\ pc' = "rendered"
    /\ UNCHANGED <<data, bucket_lookup, proc_i, block_i, blocks, block_rows>>

SeqNext == NumberRunCycles \/ PropagateMagnification \/ SeqMagnification

SpecSeq == SeqInit /\ [][SeqNext]_vars

----------------------------------------------------------------------------
(* SpecBlock: the conversion of a document with one procedure of one step, *)
(* the step drawn with its kind-specific payload and the document with its *)
(* slot-to-reagent links and reagent catalogue.                            *)

Widget == <<"W", "i", "d", "g", "e", "t">>

bucket1 == Str(<<"b", "1">>)

bucket2 == Str(<<"b", "2">>)

bucket3 == Str(<<"b", "3">>)

reagent1 == Str(<<"r", "1">>)

reagent9 == Str(<<"r", "9">>)

CD3 == <<"C", "D", "3">>

REA179 == <<"R", "E", "A", "1", "7", "9">>

PFA == <<"P", "F", "A">>

\* bucket1 is linked to a catalogue entry, bucket2 to an identifier the
\* catalogue lacks, bucket3 is not linked.
BlockLinks ==
    <<[bucketId |-> bucket1, reagentId |-> [itemId |-> reagent1]],
      [bucketId |-> bucket2, reagentId |-> [itemId |-> reagent9]]>>

FullEntry(exposureTime) ==
    [id |-> reagent1, antigen |-> Str(CD3), clone |-> Str(REA179),
     exposureTime |-> PyInt(exposureTime),
     supportedFixationMethods |-> Str(PFA), antibody |-> Str(CD3),
     antibodyType |-> Str(REA179), hostSpecies |-> Str(PFA),
     isotype |-> Str(CD3), manufacturer |-> Str(PFA), name |-> Str(CD3),
     orderNumber |-> Str(REA179), species |-> Str(PFA)]

BlockCatalogues == {<<[id |-> reagent1]>>, <<FullEntry(0)>>, <<FullEntry(56)>>}

\* The photo channels of the Erase step of the test data, with a fourth
\* disabled channel, and variants.
FluorChannel(label, energy, enabled) ==
    [fluorochromeType |-> Str(FluorochromeType_ \o label),
     bleachingEnergy |-> PyInt(energy), isEnabled |-> PyBool(enabled)]

BlockPhotos ==
    {<<>>,
     <<FluorChannel(FITC, 1980, TRUE), FluorChannel(PE, 840, TRUE),
       FluorChannel(APC, 780, TRUE), FluorChannel(Vio780, 0, FALSE)>>,
     <<FluorChannel(PE, 840, FALSE),
       [fluorochromeType |-> Str(FluorochromeType_None),
        bleachingEnergy |-> PyInt(5), isEnabled |-> PyBool(TRUE)],
       FluorChannel(FITC, 1980, TRUE)>>,
     <<[fluorochromeType |-> Str(FluorochromeType_ \o APC),
        isEnabled |-> PyBool(TRUE)],
       [fluorochromeType |-> Str(FluorochromeType_ \o PE),
        bleachingEnergy |-> PyInt(840)]>>,
     <<[bleachingEnergy |-> PyInt(840), isEnabled |-> PyBool(TRUE)]>>}

SlotRefs == {EmptyStr, bucket1, bucket2, bucket3}

SlotCoefficients ==
    {EmptyDict, [timeCoefficient |-> PyInt(0)], [timeCoefficient |-> PyInt(330)]}

SlotSettings ==
    [dilutionFactor |-> PyInt(50), incubationTime |-> PyInt(30),
     erasingMethod |-> Str(ErasingMethod_Bleaching),
     bleachingEnergy |-> PyInt(400), bleachingTime |-> PyInt(15)]

\* The per-slot records of a RunCycle step: with or without a slot
\* reference, a coefficient and the other settings.
BlockSlots ==
    {EmptyDict, SlotSettings}
        \cup {[bucketId |-> r] : r \in SlotRefs}
        \cup {SlotSettings @@ [bucketId |-> r] : r \in SlotRefs}
        \cup {[bucketId |-> r, exposureTimeAndCoefficient |-> c] :
                  r \in SlotRefs, c \in SlotCoefficients}
        \cup {SlotSettings
                  @@ [bucketId |-> r, exposureTimeAndCoefficient |-> c] :
                  r \in SlotRefs, c \in SlotCoefficients}

AllSlotKeys == {channel_order[i].key : i \in 1..Len(channel_order)}

\* The reagents payloads of a RunCycle step: empty, one slot, all slots.
BlockReagents ==
    {EmptyDict}
        \cup {[k \in {"DetectionChannel_2"} |-> dc] : dc \in BlockSlots}
        \cup {[k \in AllSlotKeys |-> dc] : dc \in BlockSlots}

BlockSteps ==
    {EmptyDict, [blockType |-> Str(ProtocolBlockType_Scan)],
     [blockType |-> Str(ProtocolBlockType_ \o Widget)],
     [blockType |-> Str(ProtocolBlockType_RunCycle)]}
        \cup {[blockType |-> Str(ProtocolBlockType_Erase), photos |-> ph] :
                  ph \in BlockPhotos}
        \cup {[blockType |-> Str(ProtocolBlockType_RunCycle), reagents |-> r] :
                  r \in BlockReagents}

\* Each step without a magnification and with an explicit one.
BlockStepsWithMagnification ==
    BlockSteps
        \cup {DictSet(s, "magnification", Str(Magnification_20x)) :
                  s \in BlockSteps}

BlockInit ==
    /\ pc = "loaded"
    /\ \E step \in BlockStepsWithMagnification, catalogue \in BlockCatalogues :
           data = [procedures |->
                       <<[blocks |-> <<step>>, reagents |-> BlockLinks]>>,
                   reagents |-> catalogue]
    /\ bucket_lookup = EmptyDict
    /\ proc_i = 1
    /\ block_i = 1
    /\ blocks = <<>>
    /\ block_rows = <<>>
    /\ call = ""
    /\ arg = PyNone
    /\ ret = PyNone

SpecBlock == BlockInit /\ [][Next]_vars

----------------------------------------------------------------------------
(* SpecRows: group separation of the gathered Steps rows, for any row list *)
(* of up to MaxRows rows, and a second pass over its own output.           *)

RowCycleNumbers == {EmptyStr, PyInt(1), PyInt(2)}

RowChannels == {EmptyStr, Str(DAPI)}

\* Rows with a CycleNumber column and a Channel column, and one row
\* without a CycleNumber column.
GatheredRows ==
    {<<[k |-> format_column_header(RunCycleNumber), v |-> n],
       [k |-> format_column_header(Channel), v |-> c]>> :
         n \in RowCycleNumbers, c \in RowChannels}
        \cup {<<[k |-> format_column_header(Channel), v |-> Str(FITC)]>>}

RowLists == UNION {[1..n -> GatheredRows] : n \in 0..MaxRows}

RowsInit ==
    /\ pc = "proc"
    /\ data = [procedures |-> <<>>, reagents |-> <<>>]
    /\ block_rows \in RowLists
    /\ bucket_lookup = EmptyDict
    /\ proc_i = 1
    /\ block_i = 1
    /\ blocks = <<>>
    /\ call = ""
    /\ arg = PyNone
    /\ ret = PyNone

\* add_blank_lines_between_run_cycles applied to its own output
SeparateAgain ==
    /\ pc = "separated"
    /\ call' = "add_blank_lines_between_run_cycles"
    /\ arg' = block_rows
    /\ ret' = add_blank_lines_between_run_cycles(block_rows)
    /\ block_rows' = ret'
    /\ pc' = "separated twice"
    /\ UNCHANGED <<data, bucket_lookup, proc_i, block_i, blocks>>

RowsNext == AddBlankLines \/ SeparateAgain

SpecRows == RowsInit /\ [][RowsNext]_vars

----------------------------------------------------------------------------
(* SpecScenario: the conversion of a document with a single procedure      *)
(* whose steps are those of the test document: Scan (2x), DefineROIs,      *)
(* Scan (20x), Erase, RestainNuclei, RunCycle, RunCycle.                   *)

Magnification_2x == Magnification_ \o <<"2", "x">>

DefineROIs == <<"D", "e", "f", "i", "n", "e", "R", "O", "I", "s">>

RestainNuclei ==
    <<"R", "e", "s", "t", "a", "i", "n", "N", "u", "c", "l", "e", "i">>

\* Three enabled photo channels, without and with a disabled fourth one.
ScenarioPhotos ==
    {<<FluorChannel(FITC, 1980, TRUE), FluorChannel(PE, 840, TRUE),
       FluorChannel(APC, 780, TRUE)>>,
     <<FluorChannel(FITC, 1980, TRUE), FluorChannel(PE, 840, TRUE),
       FluorChannel(APC, 780, TRUE), FluorChannel(Vio780, 0, FALSE)>>}

\* The reagents payloads of the RunCycle steps: all slots set up, one slot
\* set up, five slots without settings, and the empty payload of the sixth
\* and seventh step of the test document.
ScenarioReagents ==
    {[k \in AllSlotKeys |->
          SlotSettings
              @@ [bucketId |-> bucket1,
                  exposureTimeAndCoefficient |-> [timeCoefficient |-> PyInt(330)]]],
     [k \in {"DetectionChannel_2"} |-> SlotSettings @@ [bucketId |-> bucket2]],
     [k \in AllSlotKeys |-> EmptyDict],
     EmptyDict}

ScenarioSteps(photos, reagents1, reagents2) ==
    <<[blockType |-> Str(ProtocolBlockType_Scan),
       magnification |-> Str(Magnification_2x)],
      [blockType |-> Str(ProtocolBlockType_ \o DefineROIs)],
      [blockType |-> Str(ProtocolBlockType_Scan),
       magnification |-> Str(Magnification_20x)],
      [blockType |-> Str(ProtocolBlockType_Erase), photos |-> photos],
      [blockType |-> Str(ProtocolBlockType_ \o RestainNuclei)],
      [blockType |-> Str(ProtocolBlockType_RunCycle), reagents |-> reagents1],
      [blockType |-> Str(ProtocolBlockType_RunCycle), reagents |-> reagents2]>>

ScenarioInit ==
    /\ pc = "loaded"
    /\ \E photos \in ScenarioPhotos, reagents1 \in ScenarioReagents,
          reagents2 \in ScenarioReagents, catalogue \in BlockCatalogues :
           data = [procedures |->
                       <<[blocks |-> ScenarioSteps(photos, reagents1, reagents2),
                          reagents |-> BlockLinks]>>,
                   reagents |-> catalogue]
    /\ bucket_lookup = EmptyDict
    /\ proc_i = 1
    /\ block_i = 1
    /\ blocks = <<>>
    /\ block_rows = <<>>
    /\ call = ""
    /\ arg = PyNone
    /\ ret = PyNone

SpecScenario == ScenarioInit /\ [][Next]_vars

----------------------------------------------------------------------------
(* Experiment accessors                                                    *)

UnknownExperiment ==
    <<"U", "n", "k", "n", "o", "w", "n", " ", "e", "x", "p", "e", "r", "i",
      "m", "e", "n", "t">>

UnknownEndTime ==
    <<"U", "n", "k", "n", "o", "w", "n", " ", "e", "n", "d", " ", "t", "i",
      "m", "e">>

UtcOffset == <<"+", "0", "0", ":", "0", "0">>

ExperimentName ==
    <<"E", "x", "p", "e", "r", "i", "m", "e", "n", "t", "N", "a", "m", "e">>

StartTime == <<"S", "t", "a", "r", "t", "T", "i", "m", "e">>

EndTime == <<"E", "n", "d", "T", "i", "m", "e">>

RunningTime == <<"R", "u", "n", "n", "i", "n", "g", "T", "i", "m", "e">>

UsedDiskSpace ==
    <<"U", "s", "e", "d", "D", "i", "s", "k", "S", "p", "a", "c", "e">>

Digits == <<"0", "1", "2", "3", "4", "5", "6", "7", "8", "9">>

\* str(n) of an int n >= 0
RECURSIVE IntToStr(_)
IntToStr(n) ==
    IF n < 10 THEN <<Digits[n + 1]>>
    ELSE IntToStr(n \div 10) \o <<Digits[(n % 10) + 1]>>

IsDigit(c) == \E i \in 1..10 : Digits[i] = c

\* The first exception among the values of a dict display, which are
\* evaluated in order; PyNone when no value raised.
FirstRaised(values) ==
    IF \E i \in 1..Len(values) : Raised(values[i])
    THEN values[CHOOSE i \in 1..Len(values) :
                    /\ Raised(values[i])
                    /\ \A j \in 1..(i - 1) : ~Raised(values[j])]
    ELSE PyNone

\* A dict display {keys[1]: values[1], ...} as an insertion-ordered dict.
Items(keys, values) == [i \in 1..Len(keys) |-> [k |-> keys[i], v |-> values[i]]]

get_experiment_name(experiment) ==
    Get(experiment, "name", Str(UnknownExperiment))

\* datetime.fromisoformat accepts s: YYYY-MM-DDTHH:MM:SS+00:00 (the form
\* of a UTC timestamp after its "Z" was replaced; field ranges not checked).
IsIsoFormat(s) ==
    /\ Len(s) = 25
    /\ \A i \in {1, 2, 3, 4, 6, 7, 9, 10, 12, 13, 15, 16, 18, 19} : IsDigit(s[i])
    /\ s[5] = "-" /\ s[8] = "-" /\ s[11] = "T" /\ s[14] = ":" /\ s[17] = ":"
    /\ SubSeq(s, 20, 25) = UtcOffset

\* datetime.fromisoformat(raw.replace("Z", "+00:00"))
\*     .astimezone(timezone.utc).strftime("%Y-%m-%dT%H:%M:%SZ")
FormatUtc(raw) ==
    IF raw.t # "str" THEN AttributeError
    ELSE LET iso == Replace(raw.s, <<"Z">>, UtcOffset)
         IN IF IsIsoFormat(iso) THEN Str(SubSeq(iso, 1, 19) \o <<"Z">>)
            ELSE ValueError

get_start_time(experiment) ==
    FormatUtc(Get(experiment, "executionStartDateTime", Str(UnknownEndTime)))

get_end_time(experiment) ==
    FormatUtc(Get(experiment, "executionEndDateTime", Str(UnknownEndTime)))

convert_seconds_to_hms(seconds) ==
    [hours |-> seconds \div 3600,
     minutes |-> (seconds % 3600) \div 60,
     sec_left |-> seconds % 60]

\* f"{h}h {m}m {s}s"
get_running_time(experiment) ==
    LET actual_running_time_s == Get(experiment, "actualRunningTime", PyInt(0))
        hms == convert_seconds_to_hms(actual_running_time_s.n)
    IN IF actual_running_time_s.t # "int" THEN TypeError
       ELSE Str(IntToStr(hms.hours) \o <<"h", " ">>
                    \o IntToStr(hms.minutes) \o <<"m", " ">>
                    \o IntToStr(hms.sec_left) \o <<"s">>)

BytesPerKB == 1000

\* f"{round(raw_bytes / 1000, 3):.3f} KB" for a whole number of bytes: the
\* quotient, a point, and the remainder on three digits.
get_used_disk_space(experiment) ==
    LET raw_bytes == Get(experiment, "usedDiskspace", PyNone)
        thousandths == raw_bytes.n % BytesPerKB
    IN IF raw_bytes.t # "int" THEN TypeError
       ELSE Str(IntToStr(raw_bytes.n \div BytesPerKB) \o <<".">>
                    \o <<Digits[(thousandths \div 100) + 1],
                         Digits[((thousandths \div 10) % 10) + 1],
                         Digits[(thousandths % 10) + 1]>>
                    \o <<" ", "K", "B">>)

process_experiment(experiment) ==
    LET values == <<get_experiment_name(experiment), get_start_time(experiment),
                    get_end_time(experiment), get_running_time(experiment),
                    get_used_disk_space(experiment)>>
    IN IF FirstRaised(values) # PyNone THEN FirstRaised(values)
       ELSE PyDict(format_dict_headers(
                Items(<<ExperimentName, StartTime, EndTime, RunningTime,
                        UsedDiskSpace>>, values)))

----------------------------------------------------------------------------
(* Region-of-interest accessors                                            *)

UnknownROI == <<"U", "n", "k", "n", "o", "w", "n", " ", "R", "O", "I">>

UnknownShapeType ==
    <<"U", "n", "k", "n", "o", "w", "n", " ", "s", "h", "a", "p", "e", " ",
      "t", "y", "p", "e">>

UnknownHeight ==
    <<"U", "n", "k", "n", "o", "w", "n", " ", "h", "e", "i", "g", "h", "t">>

UnknownWidth ==
    <<"U", "n", "k", "n", "o", "w", "n", " ", "w", "i", "d", "t", "h">>

UnknownAutofocusMethod ==
    <<"U", "n", "k", "n", "o", "w", "n", " ", "a", "u", "t", "o", "f", "o",
      "c", "u", "s", " ", "m", "e", "t", "h", "o", "d">>

ROIName == <<"R", "O", "I", "N", "a", "m", "e">>

Shape == <<"S", "h", "a", "p", "e">>

Height == <<"H", "e", "i", "g", "h", "t">>

Width == <<"W", "i", "d", "t", "h">>

Autofocus == <<"A", "u", "t", "o", "f", "o", "c", "u", "s">>

ShapeType_ == <<"S", "h", "a", "p", "e", "T", "y", "p", "e", "_">>

AutofocusMethod_ ==
    <<"A", "u", "t", "o", "f", "o", "c", "u", "s", "M", "e", "t", "h", "o",
      "d", "_">>

NoneText == <<"N", "o", "n", "e">>

EmptyObject == <<"{", "}">>

\* The index of the first character from i on that is not a space.
RECURSIVE SkipSpaces(_, _)
SkipSpaces(s, i) ==
    IF i <= Len(s) /\ s[i] = " " THEN SkipSpaces(s, i + 1) ELSE i

\* The index of the first character from i on that is not a digit.
RECURSIVE DigitsEnd(_, _)
DigitsEnd(s, i) ==
    IF i <= Len(s) /\ IsDigit(s[i]) THEN DigitsEnd(s, i + 1) ELSE i

\* int(s) of a string of digits
RECURSIVE StrToInt(_)
StrToInt(s) ==
    IF s = <<>> THEN 0
    ELSE StrToInt(SubSeq(s, 1, Len(s) - 1)) * 10
             + (CHOOSE d \in 0..9 : Digits[d + 1] = s[Len(s)])

\* The index of the first double quote from i on, Len(s) + 1 if none.
RECURSIVE QuoteEnd(_, _)
QuoteEnd(s, i) ==
    IF i <= Len(s) /\ s[i] # "\"" THEN QuoteEnd(s, i + 1) ELSE i

\* The members of a JSON object from index i on, up to the closing brace
\* and the end of the text; d holds the members read so far.  Values are
\* whole numbers.
RECURSIVE JsonMembers(_, _, _)
JsonMembers(s, i, d) ==
    LET key_end == QuoteEnd(s, i + 1)
        colon   == SkipSpaces(s, key_end + 1)
        number  == SkipSpaces(s, colon + 1)
        after   == DigitsEnd(s, number)
        next    == SkipSpaces(s, after)
        member  == DictSet(d, SubSeq(s, i + 1, key_end - 1),
                           PyInt(StrToInt(SubSeq(s, number, after - 1))))
    IN IF \/ i > Len(s) \/ s[i] # "\""
          \/ key_end > Len(s)
          \/ colon > Len(s) \/ s[colon] # ":"
          \/ after = number
          \/ next > Len(s)
       THEN JSONDecodeError
       ELSE IF s[next] = "}"
       THEN IF SkipSpaces(s, next + 1) > Len(s) THEN PyDict(member)
            ELSE JSONDecodeError
       ELSE IF s[next] = ","
       THEN JsonMembers(s, SkipSpaces(s, next + 1), member)
       ELSE JSONDecodeError

\* json.loads of a text holding an object of whole numbers; a text that is
\* not an object is outside what is modelled and never passed.
JsonLoads(text) ==
    IF text.t # "str" THEN TypeError
    ELSE LET s == text.s
             open == SkipSpaces(s, 1)
             first == SkipSpaces(s, open + 1)
         IN IF open > Len(s) \/ s[open] # "{" THEN JSONDecodeError
            ELSE IF first <= Len(s) /\ s[first] = "}"
            THEN IF SkipSpaces(s, first + 1) > Len(s) THEN PyDict(EmptyDict)
                 ELSE JSONDecodeError
            ELSE JsonMembers(s, first, EmptyDict)

\* str(v) of an int or of None
PyStr(v) == IF v.t = "none" THEN Str(NoneText) ELSE Str(IntToStr(v.n))

get_roi_name(roi) == Get(roi, "name", Str(UnknownROI))

\* The default of roi.get("shape", ...) is a str, which has no get.
get_roi_shape_type(roi) ==
    IF "shape" \notin DOMAIN roi THEN AttributeError
    ELSE LET shape_type == Get(roi["shape"], "Type", Str(UnknownShapeType))
         IN IF shape_type.t # "str" THEN AttributeError
            ELSE Str(Replace(shape_type.s, ShapeType_, <<>>))

\* The body shared by get_roi_shape_height and get_roi_shape_width: the
\* member of the shape's Data, or the default when json.loads raised
\* JSONDecodeError or TypeError.
ShapeDataMember(roi, member, default) ==
    LET shape_data ==
            JsonLoads(Get(Get(roi, "shape", EmptyDict), "Data", Str(EmptyObject)))
    IN IF Raised(shape_data) THEN Str(default)
       ELSE PyStr(Get(shape_data.s, member, PyNone))

get_roi_shape_height(roi) == ShapeDataMember(roi, Height, UnknownHeight)

get_roi_shape_width(roi) == ShapeDataMember(roi, Width, UnknownWidth)

\* The default of roi.get("autoFocus", ...) is a str, which has no get.
get_autofocus_method(roi) ==
    IF "autoFocus" \notin DOMAIN roi THEN AttributeError
    ELSE LET autofocus_method ==
                 Get(roi["autoFocus"], "method", Str(UnknownAutofocusMethod))
         IN IF autofocus_method.t # "str" THEN AttributeError
            ELSE Str(Replace(autofocus_method.s, AutofocusMethod_, <<>>))

process_rois(roi) ==
    LET values == <<get_roi_name(roi), get_roi_shape_type(roi),
                    get_roi_shape_height(roi), get_roi_shape_width(roi),
                    get_autofocus_method(roi)>>
    IN IF FirstRaised(values) # PyNone THEN FirstRaised(values)
       ELSE PyDict(format_dict_headers(
                Items(<<ROIName, Shape, Height, Width, Autofocus>>, values)))

----------------------------------------------------------------------------
(* Sample accessors                                                        *)

UnknownSample ==
    <<"U", "n", "k", "n", "o", "w", "n", " ", "s", "a", "m", "p", "l", "e">>

UnknownSpecies ==
    <<"U", "n", "k", "n", "o", "w", "n", " ", "s", "p", "e", "c", "i", "e",
      "s">>

UnknownSampleType ==
    <<"U", "n", "k", "n", "o", "w", "n", " ", "s", "a", "m", "p", "l", "e",
      " ", "t", "y", "p", "e">>

UnknownOrgan ==
    <<"U", "n", "k", "n", "o", "w", "n", " ", "o", "r", "g", "a", "n">>

UnknownFixationMethod ==
    <<"U", "n", "k", "n", "o", "w", "n", " ", "f", "i", "x", "a", "t", "i",
      "o", "n", " ", "m", "e", "t", "h", "o", "d">>

SampleName == <<"S", "a", "m", "p", "l", "e", "N", "a", "m", "e">>

Type == <<"T", "y", "p", "e">>

Organ == <<"O", "r", "g", "a", "n">>

Fixation == <<"F", "i", "x", "a", "t", "i", "o", "n">>

SampleType_ == <<"S", "a", "m", "p", "l", "e", "T", "y", "p", "e", "_">>

get_sample_name(sample) == Get(sample, "name", Str(UnknownSample))

get_sample_species(sample) == Get(sample, "species", Str(UnknownSpecies))

get_sample_type(sample) ==
    LET sample_type == Get(sample, "sampleType", Str(UnknownSampleType))
    IN IF sample_type.t # "str" THEN AttributeError
       ELSE Str(Replace(sample_type.s, SampleType_, <<>>))

get_sample_organ(sample) == Get(sample, "organ", Str(UnknownOrgan))

get_sample_fixation_method(sample) ==
    Get(sample, "fixationMethod", Str(UnknownFixationMethod))

process_sample(sample) ==
    LET values == <<get_sample_name(sample), get_sample_species(sample),
                    get_sample_type(sample), get_sample_organ(sample),
                    get_sample_fixation_method(sample)>>
    IN IF FirstRaised(values) # PyNone THEN FirstRaised(values)
       ELSE PyDict(format_dict_headers(
                Items(<<SampleName, Species, Type, Organ, Fixation>>, values)))

----------------------------------------------------------------------------
(* SpecRecords: the experiment, region-of-interest and sample rows of one  *)
(* conversion, gathered in that order after the Reagent Index was built;   *)
(* every record is drawn with any of its fields missing.                   *)

ExperimentA == <<"2", "5", "0", "1", "2", "8", "_", "l", "i", "v", "e", "r">>

StartA ==
    <<"2", "0", "2", "5", "-", "0", "1", "-", "2", "8", "T", "1", "5", ":",
      "5", "3", ":", "3", "6", "Z">>

EndA ==
    <<"2", "0", "2", "5", "-", "0", "1", "-", "2", "9", "T", "0", "6", ":",
      "4", "3", ":", "0", "8", "Z">>

Overview == <<"C", " ", "O", "v", "e", "r", "v", "i", "e", "w">>

ShapeData ==
    <<"{", "\"", "W", "i", "d", "t", "h", "\"", ":", " ", "1", "9", ",",
      " ", "\"", "H", "e", "i", "g", "h", "t", "\"", ":", " ", "1", "0",
      "}">>

Rectangle == <<"R", "e", "c", "t", "a", "n", "g", "l", "e">>

ImageBased == <<"I", "m", "a", "g", "e", "B", "a", "s", "e", "d">>

Human == <<"H", "u", "m", "a", "n">>

Tissue == <<"T", "i", "s", "s", "u", "e">>

Liver == <<"L", "i", "v", "e", "r">>

\* The restriction of a record to the fields in keep.
Restrict(record, keep) == [k \in keep |-> record[k]]

\* The experiment of the test document.
FullExperiment ==
    [name |-> Str(ExperimentA), executionStartDateTime |-> Str(StartA),
     executionEndDateTime |-> Str(EndA), actualRunningTime |-> PyInt(53367),
     usedDiskspace |-> PyInt(182645)]

RecordExperiments ==
    {Restrict(FullExperiment, keep) : keep \in SUBSET DOMAIN FullExperiment}

\* Shapes: without fields, with a type, with Data that is an object, an
\* empty object, or not JSON.
RecordShapes ==
    {EmptyDict,
     [Type |-> Str(ShapeType_ \o Rectangle)],
     [Data |-> Str(ShapeData)],
     [Type |-> Str(ShapeType_ \o Rectangle), Data |-> Str(ShapeData)],
     [Type |-> Str(ShapeType_ \o Rectangle), Data |-> Str(EmptyObject)],
     [Type |-> Str(ShapeType_ \o Rectangle), Data |-> Str(Rectangle)]}

RecordAutofocus ==
    {EmptyDict, [method |-> Str(ImageBased)],
     [method |-> Str(AutofocusMethod_ \o ImageBased)]}

RecordRois ==
    LET names == {EmptyDict, [name |-> Str(Overview)]}
    IN names
        \cup {n @@ [shape |-> s] : n \in names, s \in RecordShapes}
        \cup {n @@ [autoFocus |-> a] : n \in names, a \in RecordAutofocus}
        \cup {n @@ [shape |-> s, autoFocus |-> a] :
                  n \in names, s \in RecordShapes, a \in RecordAutofocus}

\* The sample of the test document.
FullSample ==
    [name |-> Str(ExperimentA), species |-> Str(Human),
     sampleType |-> Str(SampleType_ \o Tissue), organ |-> Str(Liver),
     fixationMethod |-> Str(PFA)]

\* The sample complete, with one field missing, and without fields.
RecordSamples ==
    {FullSample, EmptyDict}
        \cup {Restrict(FullSample, DOMAIN FullSample \ {k}) :
                  k \in DOMAIN FullSample}

RecordsInit ==
    /\ pc = "gather"
    /\ \E experiment \in RecordExperiments, roi \in RecordRois,
          sample \in RecordSamples :
           data = [experiments |-> <<experiment>>, rois |-> <<roi>>,
                   samples |-> <<sample>>, procedures |-> <<>>,
                   reagents |-> <<>>]
    /\ bucket_lookup = EmptyDict
    /\ proc_i = 1
    /\ block_i = 1
    /\ blocks = <<>>
    /\ block_rows = <<>>
    /\ call = ""
    /\ arg = PyNone
    /\ ret = PyNone

\* A list comprehension [f(x) for x in xs] whose results are given: the
\* list, or the first exception raised.
Comprehension(results) ==
    IF FirstRaised(results) # PyNone THEN FirstRaised(results)
    ELSE PyList(results)

\* exp_rows = [process_experiment(e) for e in data["experiments"]]
GatherExperiments ==
    /\ pc = "gather"
    /\ call' = "process_experiment"
    /\ arg' = data["experiments"]
    /\ ret' = Comprehension([i \in 1..Len(data["experiments"]) |->
                                process_experiment(data["experiments"][i])])
    /\ pc' = IF Raised(ret') THEN "raised" ELSE "experiments"
    /\ UNCHANGED <<data, bucket_lookup, proc_i, block_i, blocks, block_rows>>

\* roi_rows = [process_rois(r) for r in data["rois"]]
GatherRois ==
    /\ pc = "experiments"
    /\ call' = "process_rois"
    /\ arg' = data["rois"]
    /\ ret' = Comprehension([i \in 1..Len(data["rois"]) |->
                                process_rois(data["rois"][i])])
    /\ pc' = IF Raised(ret') THEN "raised" ELSE "rois"
    /\ UNCHANGED <<data, bucket_lookup, proc_i, block_i, blocks, block_rows>>

\* sample_rows = [process_sample(s) for s in data["samples"]]
GatherSamples ==
    /\ pc = "rois"
    /\ call' = "process_sample"
    /\ arg' = data["samples"]
    /\ ret' = Comprehension([i \in 1..Len(data["samples"]) |->
                                process_sample(data["samples"][i])])
    /\ pc' = IF Raised(ret') THEN "raised" ELSE "samples"
    /\ UNCHANGED <<data, bucket_lookup, proc_i, block_i, blocks, block_rows>>

RecordsNext == GatherExperiments \/ GatherRois \/ GatherSamples

SpecRecords == RecordsInit /\ [][RecordsNext]_vars

----------------------------------------------------------------------------
(* SpecHeader: header formatting of one field name (any text of up to      *)
(* MaxHeaderLen letters, and the field names of the tables) and of the     *)
(* keys of a row of two columns.                                           *)

HeaderLetters == {"a", "b", "A", "B"}

HeaderTexts == UNION {[1..n -> HeaderLetters] : n \in 0..MaxHeaderLen}

\* The field names of the experiment, region-of-interest and sample rows.
RecordFieldNames ==
    {ExperimentName, StartTime, EndTime, RunningTime, UsedDiskSpace, ROIName,
     Shape, Height, Width, Autofocus, SampleName, Species, Type, Organ,
     Fixation}

\* The field names of a row of the Steps table.
StepFieldNames == {column_order[c] : c \in 1..Len(column_order)}

\* Keys of a row: the step field names, and a name next to the display form
\* of it.
RowKeyNames == StepFieldNames \cup {<<"a", "B">>, <<"a", "\n", "B">>}

HeaderInit ==
    /\ \/ /\ pc = "header"
          /\ \E header \in HeaderTexts \cup RecordFieldNames \cup StepFieldNames :
                 data = Str(header)
       \/ /\ pc = "dict"
          /\ \E k1 \in RowKeyNames, k2 \in RowKeyNames :
                 /\ k1 # k2
                 /\ data = PyDict(Items(<<k1, k2>>, <<PyInt(1), PyInt(2)>>))
    /\ bucket_lookup = EmptyDict
    /\ proc_i = 1
    /\ block_i = 1
    /\ blocks = <<>>
    /\ block_rows = <<>>
    /\ call = ""
    /\ arg = PyNone
    /\ ret = PyNone

\* formatted = format_column_header(header)
FormatColumnHeader ==
    /\ pc = "header"
    /\ call' = "format_column_header"
    /\ arg' = data
    /\ ret' = Str(format_column_header(data.s))
    /\ pc' = "formatted"
    /\ UNCHANGED <<data, bucket_lookup, proc_i, block_i, blocks, block_rows>>

\* row = format_dict_headers(data_dict)
FormatDictHeaders ==
    /\ pc = "dict"
    /\ call' = "format_dict_headers"
    /\ arg' = data
    /\ ret' = PyDict(format_dict_headers(data.s))
    /\ pc' = "formatted"
    /\ UNCHANGED <<data, bucket_lookup, proc_i, block_i, blocks, block_rows>>

HeaderNext == FormatColumnHeader \/ FormatDictHeaders

SpecHeader == HeaderInit /\ [][HeaderNext]_vars

----------------------------------------------------------------------------
(* Query helpers                                                           *)

\* The pair (antigen, clone) as a list of two values, None for an unknown
\* bucket, KeyError when the entry lacks a key that is read.
get_antigen_clone_by_bucket(bucket_id, lookup) ==
    LET info == Get(lookup, bucket_id, PyNone)
    IN IF info = PyNone THEN PyNone
       ELSE IF "Antigen" \notin DOMAIN info \/ "Clone" \notin DOMAIN info
       THEN KeyError
       ELSE PyList(<<info["Antigen"], info["Clone"]>>)

----------------------------------------------------------------------------
(* SpecIndex: the Reagent Index of a document with one or two procedures,  *)
(* each with up to two slot-to-reagent links, and a query of one slot.     *)

reagent2 == Str(<<"r", "2">>)

CD4 == <<"C", "D", "4">>

IndexLinks ==
    {[bucketId |-> b, reagentId |-> [itemId |-> r]] :
         b \in {bucket1, bucket2}, r \in {reagent1, reagent2, reagent9}}

IndexLinkLists == UNION {[1..n -> IndexLinks] : n \in 0..2}

IndexProcedures ==
    UNION {[1..n -> {[blocks |-> <<>>, reagents |-> links] :
                         links \in IndexLinkLists}] : n \in 1..2}

\* reagent1 is CD3 with clone REA179; reagent2 is CD4 without a clone.
IndexCatalogue ==
    <<FullEntry(56), [id |-> reagent2, antigen |-> Str(CD4)]>>

IndexInit ==
    /\ pc = "loaded"
    /\ \E procedures \in IndexProcedures :
           data = [procedures |-> procedures, reagents |-> IndexCatalogue]
    /\ bucket_lookup = EmptyDict
    /\ proc_i = 1
    /\ block_i = 1
    /\ blocks = <<>>
    /\ block_rows = <<>>
    /\ call = ""
    /\ arg = PyNone
    /\ ret = PyNone

\* get_antigen_clone_by_bucket(bucket_id, bucket_lookup)
QueryBucket ==
    /\ pc = "proc"
    /\ \E bucket_id \in {bucket1, bucket2, bucket3} :
           /\ arg' = bucket_id
           /\ ret' = get_antigen_clone_by_bucket(bucket_id, bucket_lookup)
    /\ call' = "get_antigen_clone_by_bucket"
    /\ pc' = "queried"
    /\ UNCHANGED <<data, bucket_lookup, proc_i, block_i, blocks, block_rows>>

IndexNext == BuildBucketLookup \/ QueryBucket

SpecIndex == IndexInit /\ [][IndexNext]_vars

----------------------------------------------------------------------------
(* SpecOrder: the two passes of the Step Sequencer applied in both orders  *)
(* to the step list of one procedure.  The first order runs on the         *)
(* document itself, the second on a copy of the list taken before (arg) or *)
(* on the document as the first order left it.                             *)

OrderInit ==
    /\ pc = "order"
    /\ \E steps \in StepLists :
           data = [procedures |-> <<[blocks |-> steps]>>, reagents |-> <<>>]
    /\ bucket_lookup = EmptyDict
    /\ proc_i = 1
    /\ block_i = 1
    /\ blocks = <<>>
    /\ block_rows = <<>>
    /\ call = ""
    /\ arg = PyNone
    /\ ret = PyNone

\* ret = propagate_magnification(add_numbers_to_run_cycles(proc["blocks"]));
\* the numbering writes into the document's dicts.
NumberThenPropagate ==
    /\ pc = "order"
    /\ call' = "propagate_magnification"
    /\ arg' = data["procedures"][1]["blocks"]
    /\ ret' = propagate_magnification(
                  add_numbers_to_run_cycles(data["procedures"][1]["blocks"]))
    /\ data' = [data EXCEPT !["procedures"][1]["blocks"] =
                    add_numbers_to_run_cycles(data["procedures"][1]["blocks"])]
    /\ pc' = "number_propagate"
    /\ UNCHANGED <<bucket_lookup, proc_i, block_i, blocks, block_rows>>

\* blocks = add_numbers_to_run_cycles(propagate_magnification(steps)); the
\* numbering writes into the copies propagate_magnification made.
PropagateThenNumber ==
    /\ pc = "number_propagate"
    /\ \E steps \in {arg, data["procedures"][1]["blocks"]} :
           blocks' = add_numbers_to_run_cycles(propagate_magnification(steps))
    /\ call' = "add_numbers_to_run_cycles"
    /\ pc' = "propagate_number"
    /\ UNCHANGED <<data, bucket_lookup, proc_i, block_i, block_rows, arg, ret>>

OrderNext == NumberThenPropagate \/ PropagateThenNumber

SpecOrder == OrderInit /\ [][OrderNext]_vars

----------------------------------------------------------------------------
(* SpecCatalogue: the Reagent Index of a document whose one catalogue      *)
(* entry carries any subset of its fields, the identifier included.        *)

CatalogueEntries ==
    {Restrict(FullEntry(56), keep) : keep \in SUBSET (DOMAIN FullEntry(56))}

CatalogueInit ==
    /\ pc = "loaded"
    /\ \E r \in CatalogueEntries :
           data = [procedures |->
                       <<[blocks |-> <<>>, reagents |-> BlockLinks]>>,
                   reagents |-> <<r>>]
    /\ bucket_lookup = EmptyDict
    /\ proc_i = 1
    /\ block_i = 1
    /\ blocks = <<>>
    /\ block_rows = <<>>
    /\ call = ""
    /\ arg = PyNone
    /\ ret = PyNone

SpecCatalogue == CatalogueInit /\ [][BuildBucketLookup]_vars

----------------------------------------------------------------------------
(* SpecLabel: the sanitization of one categorical label "<Prefix>_<rest>"  *)
(* by the function that reads it; rest is made of up to MaxLabelParts      *)
(* parts, each a letter, an underscore or the prefix text again.           *)

LabelPrefixes ==
    [erasingMethod |-> ErasingMethod \o <<"_">>,
     fluorochromeType |-> FluorochromeType_,
     blockType |-> ProtocolBlockType_,
     magnification |-> Magnification_,
     Type |-> ShapeType_,
     method |-> AutofocusMethod_,
     sampleType |-> SampleType_]

RECURSIVE Joined(_)
Joined(parts) ==
    IF parts = <<>> THEN <<>> ELSE Head(parts) \o Joined(Tail(parts))

LabelRests(prefix) ==
    {Joined(parts) :
         parts \in UNION {[1..n -> {<<"x">>, <<"_">>, prefix}] :
                              n \in 1..MaxLabelParts}}

LabelInit ==
    /\ pc = "label"
    /\ \E field \in DOMAIN LabelPrefixes :
           \E rest \in LabelRests(LabelPrefixes[field]) :
               data = [field |-> field, rest |-> rest,
                       raw |-> Str(LabelPrefixes[field] \o rest)]
    /\ bucket_lookup = EmptyDict
    /\ proc_i = 1
    /\ block_i = 1
    /\ blocks = <<>>
    /\ block_rows = <<>>
    /\ call = ""
    /\ arg = PyNone
    /\ ret = PyNone

\* The frame of the seven label actions: f is the function called and
\* result the label it returned.
Sanitized(field, f, result) ==
    /\ pc = "label"
    /\ data.field = field
    /\ call' = f
    /\ arg' = data.raw
    /\ ret' = result
    /\ pc' = "sanitized"
    /\ UNCHANGED <<data, bucket_lookup, proc_i, block_i, blocks, block_rows>>

\* "ErasingMethod" of get_run_cycle_channel_info for the first slot
SanitizeErasingMethod ==
    Sanitized("erasingMethod", "get_run_cycle_channel_info",
        get_run_cycle_channel_info(
            [reagents |->
                 (channel_order[1].key :>
                      [bucketId |-> bucket1, erasingMethod |-> data.raw])],
            EmptyDict).s[1].ChannelInfo.ErasingMethod)

\* "Channel" of get_erase_channel_info for one enabled photo channel
SanitizeFluorochromeType ==
    Sanitized("fluorochromeType", "get_erase_channel_info",
        get_erase_channel_info(
            [photos |-> <<[fluorochromeType |-> data.raw,
                           isEnabled |-> PyBool(TRUE)]>>]).s[1].Channel)

SanitizeBlockType ==
    Sanitized("blockType", "get_block_type",
        get_block_type([blockType |-> data.raw]))

SanitizeMagnification ==
    Sanitized("magnification", "get_block_magnification",
        get_block_magnification([magnification |-> data.raw]))

SanitizeShapeType ==
    Sanitized("Type", "get_roi_shape_type",
        get_roi_shape_type([shape |-> [Type |-> data.raw]]))

SanitizeAutofocusMethod ==
    Sanitized("method", "get_autofocus_method",
        get_autofocus_method([autoFocus |-> [method |-> data.raw]]))

SanitizeSampleType ==
    Sanitized("sampleType", "get_sample_type",
        get_sample_type([sampleType |-> data.raw]))

LabelNext ==
    \/ SanitizeErasingMethod
    \/ SanitizeFluorochromeType
    \/ SanitizeBlockType
    \/ SanitizeMagnification
    \/ SanitizeShapeType
    \/ SanitizeAutofocusMethod
    \/ SanitizeSampleType

SpecLabel == LabelInit /\ [][LabelNext]_vars

----------------------------------------------------------------------------
(* The web upload: process_json_to_excel and the upload_file handler       *)

UnknownRack ==
    <<"U", "n", "k", "n", "o", "w", "n", " ", "r", "a", "c", "k">>

get_rack_name(rack) == Get(rack, "name", Str(UnknownRack))

\* {"RackName": get_rack_name(r)}
RackRow(rack) ==
    PyDict(<<[k |-> <<"R", "a", "c", "k", "N", "a", "m", "e">>,
              v |-> get_rack_name(rack)]>>)

\* str.lower on the letters of the alphabet
LowerOf ==
    [c \in Upper |->
        CASE c = "A" -> "a" [] c = "B" -> "b" [] c = "C" -> "c"
          [] c = "D" -> "d" [] c = "E" -> "e" [] c = "F" -> "f"
          [] c = "G" -> "g" [] c = "H" -> "h" [] c = "I" -> "i"
          [] c = "J" -> "j" [] c = "K" -> "k" [] c = "L" -> "l"
          [] c = "M" -> "m" [] c = "N" -> "n" [] c = "O" -> "o"
          [] c = "P" -> "p" [] c = "Q" -> "q" [] c = "R" -> "r"
          [] c = "S" -> "s" [] c = "T" -> "t" [] c = "U" -> "u"
          [] c = "V" -> "v" [] c = "W" -> "w" [] c = "X" -> "x"
          [] c = "Y" -> "y" [] OTHER -> "z"]

ToLower(s) == [i \in 1..Len(s) |-> IF s[i] \in Upper THEN LowerOf[s[i]] ELSE s[i]]

ALLOWED_EXTENSIONS == {<<"j", "s", "o", "n">>}

allowed_file(filename) ==
    /\ \E i \in 1..Len(filename) : filename[i] = "."
    /\ ToLower(SplitLast(filename, ".")) \in ALLOWED_EXTENSIONS

\* [f(x) for x in data[key]] with the results of f given: KeyError when
\* the collection is missing
Gathered(doc, key, results) ==
    IF key \notin DOMAIN doc THEN KeyError ELSE Comprehension(results)

\* for b in blocks: block_rows.extend(process_block(b, bucket_lookup))
RECURSIVE BlockRowsFrom(_, _, _, _)
BlockRowsFrom(bs, i, lookup, rows) ==
    IF i > Len(bs) THEN PyList(rows)
    ELSE LET r == process_block(bs[i], lookup)
         IN IF Raised(r) THEN r
            ELSE BlockRowsFrom(bs, i + 1, lookup, rows \o r.s)

\* The loop over data["procedures"] from procedure p on.
RECURSIVE ProcedureRowsFrom(_, _, _, _)
ProcedureRowsFrom(procedures, p, lookup, rows) ==
    IF p > Len(procedures) THEN PyList(rows)
    ELSE IF "blocks" \notin DOMAIN procedures[p] THEN KeyError
    ELSE LET r == BlockRowsFrom(
                      propagate_magnification(
                          add_numbers_to_run_cycles(procedures[p]["blocks"])),
                      1, lookup, rows)
         IN IF Raised(r) THEN r
            ELSE ProcedureRowsFrom(procedures, p + 1, lookup, r.s)

\* A table xlsxwriter can write: no cell holds a list or a dict (write()
\* raises TypeError: Unsupported type).  rows is a list of dict rows.
Writable(rows) ==
    \A i \in 1..Len(rows) : \A c \in 1..Len(rows[i].s) :
        rows[i].s[c].v.t \notin {"list", "dict"}

\* process_json_to_excel on the content of the uploaded file: ret is the
\* path returned or the exception raised, excel tells whether the Excel
\* file exists afterwards.  pd.ExcelWriter creates the file, and leaving
\* its with block saves the workbook also when to_excel raised.
process_json_to_excel(content) ==
    LET data_ == content.s
        lookup == build_bucket_lookup(data_)
        exp_rows ==
            Gathered(data_, "experiments",
                [i \in 1..Len(data_["experiments"]) |->
                    process_experiment(data_["experiments"][i])])
        rack_rows ==
            Gathered(data_, "racks",
                [i \in 1..Len(data_["racks"]) |-> RackRow(data_["racks"][i])])
        roi_rows ==
            Gathered(data_, "rois",
                [i \in 1..Len(data_["rois"]) |-> process_rois(data_["rois"][i])])
        sample_rows ==
            Gathered(data_, "samples",
                [i \in 1..Len(data_["samples"]) |->
                    process_sample(data_["samples"][i])])
        step_rows == IF "procedures" \notin DOMAIN data_ THEN KeyError
                     ELSE ProcedureRowsFrom(data_["procedures"], 1, lookup.s, <<>>)
    IN IF content.t # "dict"
       THEN [ret |-> JSONDecodeError, excel |-> FALSE]
       ELSE IF Raised(lookup) THEN [ret |-> lookup, excel |-> FALSE]
       ELSE IF Raised(exp_rows) THEN [ret |-> exp_rows, excel |-> FALSE]
       ELSE IF Raised(rack_rows) THEN [ret |-> rack_rows, excel |-> FALSE]
       ELSE IF Raised(roi_rows) THEN [ret |-> roi_rows, excel |-> FALSE]
       ELSE IF Raised(sample_rows) THEN [ret |-> sample_rows, excel |-> FALSE]
       ELSE IF Raised(step_rows) THEN [ret |-> step_rows, excel |-> FALSE]
       ELSE IF ~(Writable(exp_rows.s) /\ Writable(rack_rows.s)
                     /\ Writable(roi_rows.s) /\ Writable(sample_rows.s))
       THEN [ret |-> TypeError, excel |-> TRUE]
       ELSE [ret |-> Str(<<"x", "l", "s", "x">>), excel |-> TRUE]

\* The name get_user_friendly_error_message is bound nowhere in app.py:
\* calling it raises NameError.
get_user_friendly_error_message == NameError

\* upload_file: what the handler leaves behind for a request, given the
\* files on disk before; temp_json_path and excel_path are its locals, and
\* result is what the one call of process_json_to_excel gave.
upload_file(request) ==
    IF "file" \notin DOMAIN request.files
    THEN [response |-> [t |-> "redirect", s |-> "request.url", n |-> 0],
          flashed |-> <<"No file selected">>, disk |-> {}]
    ELSE LET file == request.files["file"] IN
    IF file.filename = <<>>
    THEN [response |-> [t |-> "redirect", s |-> "request.url", n |-> 0],
          flashed |-> <<"No file selected">>, disk |-> {}]
    ELSE IF ~allowed_file(file.filename)
    THEN [response |-> [t |-> "redirect", s |-> "index", n |-> 0],
          flashed |-> <<"Invalid file type. Please upload a JSON file.">>,
          disk |-> {}]
    ELSE LET tried(result) ==
                 LET excel_path ==
                         IF Raised(result.ret) THEN PyNone ELSE result.ret
                     created == {"temp_json"}
                                    \cup (IF result.excel THEN {"excel"} ELSE {})
                 IN IF ~Raised(result.ret)
                    THEN [response |->
                              [t |-> "send_file", s |-> "excel", n |-> 0],
                          flashed |-> <<>>, disk |-> created]
                    ELSE [response |-> get_user_friendly_error_message,
                          flashed |-> <<>>,
                          disk |-> (created \ {"temp_json"})
                                       \ (IF excel_path # PyNone
                                           THEN {"excel"} ELSE {})]
         IN CHOOSE left \in {tried(result) :
                                result \in {process_json_to_excel(file.content)}} :
                TRUE

\* The cleanup callback registered with response.call_on_close
cleanup(disk) == disk \ {"temp_json", "excel"}

----------------------------------------------------------------------------
(* SpecUpload: one upload request and the closing of its response.  data   *)
(* holds the request, the temporary files on disk and the messages flashed;*)
(* ret is the response or the exception that left the handler.             *)

UploadNames ==
    {<<>>, <<"s", ".", "j", "s", "o", "n">>, <<"s", ".", "J", "S", "O", "N">>,
     <<"s", ".", "t", "x", "t">>, <<"j", "s", "o", "n">>}

UploadCollections ==
    [experiments |-> {<<FullExperiment>>, <<EmptyDict>>,
                      <<[FullExperiment EXCEPT !["name"] = PyDict(EmptyDict)]>>},
     racks |-> {<<EmptyDict>>},
     rois |-> {<<[name |-> Str(Overview),
                  shape |-> [Type |-> Str(ShapeType_ \o Rectangle)],
                  autoFocus |-> [method |-> Str(ImageBased)]]>>},
     samples |-> {<<FullSample>>},
     procedures |-> {<<[blocks |-> <<>>, reagents |-> <<>>]>>}]

\* The uploaded file: text that is not JSON, or a JSON object with any of
\* its top-level collections missing.
UploadContents ==
    {Str(<<"{">>)}
        \cup UNION {{PyDict(doc) :
                         doc \in {d \in [keys -> UNION {UploadCollections[k] :
                                                           k \in keys}] :
                                      \A k \in keys : d[k] \in UploadCollections[k]}} :
                        keys \in SUBSET DOMAIN UploadCollections}

UploadRequests ==
    {[files |-> EmptyDict]}
        \cup {[files |-> [file |-> [filename |-> name, content |-> content]]] :
                  name \in UploadNames, content \in UploadContents}

UploadInit ==
    /\ pc = "request"
    /\ \E request \in UploadRequests :
           data = [request |-> request, disk |-> {}, flashed |-> <<>>]
    /\ bucket_lookup = EmptyDict
    /\ proc_i = 1
    /\ block_i = 1
    /\ blocks = <<>>
    /\ block_rows = <<>>
    /\ call = ""
    /\ arg = PyNone
    /\ ret = PyNone

\* The handler of POST /upload, up to its return or to the exception that
\* leaves it.
UploadFile ==
    /\ pc = "request"
    /\ call' = "upload_file"
    /\ arg' = data.request
    /\ \E left \in {upload_file(data.request)} :
           /\ ret' = left.response
           /\ data' = [data EXCEPT !.disk = left.disk, !.flashed = left.flashed]
    /\ pc' = IF ret'.t = "send_file" THEN "responding" ELSE "handled"
    /\ UNCHANGED <<bucket_lookup, proc_i, block_i, blocks, block_rows>>

\* The response was sent and is closed: the cleanup callback runs.
CloseResponse ==
    /\ pc = "responding"
    /\ call' = "cleanup"
    /\ data' = [data EXCEPT !.disk = cleanup(data.disk)]
    /\ pc' = "handled"
    /\ UNCHANGED <<bucket_lookup, proc_i, block_i, blocks, block_rows, arg, ret>>

UploadNext == UploadFile \/ CloseResponse

SpecUpload == UploadInit /\ [][UploadNext]_vars

----------------------------------------------------------------------------
(* SpecProcedures: the conversion of a document with up to MaxProcedures   *)
(* procedures of up to MaxProcedureSteps steps each; every step is a Scan  *)
(* or a RunCycle with one slot set up, and carries its magnification.      *)

ProcedureStepKinds ==
    {[blockType |-> Str(ProtocolBlockType_Scan),
      magnification |-> Str(Magnification_20x)],
     [blockType |-> Str(ProtocolBlockType_RunCycle),
      magnification |-> Str(Magnification_20x),
      reagents |-> [k \in {"DetectionChannel_2"} |->
                        SlotSettings @@ [bucketId |-> bucket1]]]}

ProcedureStepLists ==
    UNION {[1..n -> ProcedureStepKinds] : n \in 0..MaxProcedureSteps}

ProcedureLists ==
    UNION {[1..n -> {[blocks |-> steps, reagents |-> BlockLinks] :
                         steps \in ProcedureStepLists}] :
               n \in 1..MaxProcedures}

ProceduresInit ==
    /\ pc = "loaded"
    /\ \E procedures \in ProcedureLists :
           data = [procedures |-> procedures, reagents |-> <<FullEntry(56)>>]
    /\ bucket_lookup = EmptyDict
    /\ proc_i = 1
    /\ block_i = 1
    /\ blocks = <<>>
    /\ block_rows = <<>>
    /\ call = ""
    /\ arg = PyNone
    /\ ret = PyNone

SpecProcedures == ProceduresInit /\ [][Next]_vars

----------------------------------------------------------------------------
(* SpecTwice: cycle numbering applied to the step list of one procedure    *)
(* and then again to the same in-memory document.                          *)

\* add_numbers_to_run_cycles(proc["blocks"]) on the document the first
\* call has numbered
NumberAgain ==
    /\ pc = "numbered"
    /\ call' = "add_numbers_to_run_cycles"
    /\ arg' = data["procedures"][proc_i]["blocks"]
    /\ ret' = add_numbers_to_run_cycles(data["procedures"][proc_i]["blocks"])
    /\ blocks' = ret'
    /\ data' = [data EXCEPT !["procedures"][proc_i]["blocks"] = ret']
    /\ pc' = "numbered twice"
    /\ UNCHANGED <<bucket_lookup, proc_i, block_i, block_rows>>

TwiceNext == NumberRunCycles \/ NumberAgain

SpecTwice == SeqInit /\ [][TwiceNext]_vars

----------------------------------------------------------------------------
(* Claims on the Step Sequencer (checked under SpecSeq)                    *)

\* The positions of the RunCycle steps among the first i steps of bs.
RunCyclesUpTo(bs, i) == {j \in 1..i : IsRunCycleBlock(bs[j])}

\* C1: add_numbers_to_run_cycles gives the RunCycle steps of a step list
\* exactly the cycle numbers 1..k in step order (the j-th RunCycle step gets
\* j), and a step that is not a RunCycle step has no cycle number.
C1_CycleNumbers ==
    call = "add_numbers_to_run_cycles" =>
        /\ Len(blocks) = Len(arg)
        /\ \A i \in 1..Len(blocks) :
              /\ Get(blocks[i], "blockType", PyNone)
                    = Get(arg[i], "blockType", PyNone)
              /\ IF IsRunCycleBlock(arg[i])
                 THEN /\ "runCycleNumber" \in DOMAIN blocks[i]
                      /\ blocks[i]["runCycleNumber"]
                            = PyInt(Cardinality(RunCyclesUpTo(arg, i)))
                 ELSE "runCycleNumber" \notin DOMAIN blocks[i]

\* Two RunCycle steps with another step between them have been numbered.
C1_Witness ==
    /\ call = "add_numbers_to_run_cycles"
    /\ Len(blocks) = 4
    /\ IsRunCycleBlock(blocks[1])
    /\ ~IsRunCycleBlock(blocks[2])
    /\ IsRunCycleBlock(blocks[3])
    /\ blocks[3]["runCycleNumber"] = PyInt(2)

\* The positions up to i whose step carries a non-empty explicit
\* magnification.
ExplicitUpTo(bs, i) ==
    {j \in 1..i : Truthy(Get(bs[j], "magnification", PyNone))}

Max(S) == CHOOSE x \in S : \A y \in S : y <= x

\* C2: after propagate_magnification each step's magnification is the most
\* recent non-empty explicit magnification found at or before that step.
C2_Propagation ==
    call = "propagate_magnification" =>
        /\ Len(blocks) = Len(arg)
        /\ \A i \in 1..Len(blocks) :
              ExplicitUpTo(arg, i) # {} =>
                  /\ "magnification" \in DOMAIN blocks[i]
                  /\ blocks[i]["magnification"]
                        = arg[Max(ExplicitUpTo(arg, i))]["magnification"]

\* [20x, -, 40x, -] has become [20x, 20x, 40x, 40x].
C2_Witness ==
    /\ call = "propagate_magnification"
    /\ Len(blocks) = 4
    /\ Get(arg[1], "magnification", PyNone) = Str(Magnification_20x)
    /\ "magnification" \notin DOMAIN arg[2]
    /\ Get(arg[3], "magnification", PyNone) = Str(Magnification_40x)
    /\ Get(arg[4], "magnification", PyNone) = PyNone
    /\ blocks[2]["magnification"] = Str(Magnification_20x)
    /\ blocks[4]["magnification"] = Str(Magnification_40x)

\* C3: a step whose magnification is absent or null is rendered with the
\* default "N/A": get_block_magnification returns "N/A" and does not raise,
\* also for the steps propagate_magnification produced when no
\* magnification was ever set.
C3_NullMagnificationIsNA ==
    call = "get_block_magnification" =>
        \A i \in 1..Len(arg) :
            Get(arg[i], "magnification", PyNone) = PyNone =>
                ret[i] = Str(NA)

----------------------------------------------------------------------------
(* Claims on the Step Row Dispatcher (checked under SpecBlock)             *)

\* The 22 column headers of the Steps table as the workbook shows them.
StepTableSchema ==
    <<<<"R", "u", "n", "\n", "C", "y", "c", "l", "e", "\n", "N", "u", "m",
       "b", "e", "r">>,
      <<"B", "l", "o", "c", "k", "\n", "T", "y", "p", "e">>,
      <<"A", "n", "t", "i", "g", "e", "n">>,
      <<"C", "h", "a", "n", "n", "e", "l">>,
      <<"M", "a", "g", "n", "i", "f", "i", "c", "a", "t", "i", "o", "n">>,
      <<"C", "l", "o", "n", "e">>,
      <<"D", "i", "l", "u", "t", "i", "o", "n", "\n", "F", "a", "c", "t",
       "o", "r">>,
      <<"I", "n", "c", "u", "b", "a", "t", "i", "o", "n", "\n", "T", "i",
       "m", "e">>,
      <<"R", "e", "a", "g", "e", "n", "t", "\n", "E", "x", "p", "o", "s",
       "u", "r", "e">>,
      <<"C", "o", "e", "f", "f", "i", "c", "i", "e", "n", "t">>,
      <<"A", "c", "t", "u", "a", "l", "\n", "E", "x", "p", "o", "s", "u",
       "r", "e">>,
      <<"E", "r", "a", "s", "i", "n", "g", "\n", "M", "e", "t", "h", "o",
       "d">>,
      <<"B", "l", "e", "a", "c", "h", "i", "n", "g", "\n", "E", "n", "e",
       "r", "g", "y">>,
      <<"V", "a", "l", "i", "d", "a", "t", "e", "d", "\n", "F", "o", "r">>,
      <<"A", "n", "t", "i", "b", "o", "d", "y">>,
      <<"A", "n", "t", "i", "b", "o", "d", "y", "\n", "T", "y", "p", "e">>,
      <<"H", "o", "s", "t", "\n", "S", "p", "e", "c", "i", "e", "s">>,
      <<"I", "s", "o", "t", "y", "p", "e">>,
      <<"M", "a", "n", "u", "f", "a", "c", "t", "u", "r", "e", "r">>,
      <<"O", "r", "d", "e", "r", "\n", "N", "u", "m", "b", "e", "r">>,
      <<"S", "p", "e", "c", "i", "e", "s">>,
      <<"N", "a", "m", "e">>>>

\* The position of a column in the schema.
Col(name) == CHOOSE c \in 1..Len(column_order) : column_order[c] = name

\* The value a row shows under the header at schema position c.
Cell(row, c) == RowGet(row, StepTableSchema[c], PyNone)

IsEraseStep(step) ==
    Get(step, "blockType", PyNone) = Str(ProtocolBlockType_Erase)

CanonicalChannels == <<DAPI, FITC, PE, APC, Vio780>>

EnabledChannels(step) ==
    SelectSeq(Get(step, "photos", <<>>),
              LAMBDA dc : /\ Get(dc, "isEnabled", PyNone) = PyBool(TRUE)
                          /\ Get(dc, "fluorochromeType", PyNone)
                                # Str(FluorochromeType_None))

\* The label of a photo-channel: its fluorochrome without the prefix.
ChannelLabel(dc) ==
    LET fluor == Get(dc, "fluorochromeType", EmptyStr).s
    IN IF StartsWith(fluor, FluorochromeType_)
       THEN Str(SubSeq(fluor, Len(FluorochromeType_) + 1, Len(fluor)))
       ELSE Str(fluor)

\* C5: for every Erase step, process_block returns one row per photo-channel
\* that is enabled and whose fluorochrome is not "none", in the order of
\* the step's channels, and no other row; each row carries the channel
\* label and that channel's bleaching energy, an empty CycleNumber and empty
\* reagent columns.
C5_EraseRowPerEnabledChannel ==
    (call = "process_block" /\ IsEraseStep(arg)) =>
        /\ ret.t = "list"
        /\ Len(ret.s) = Len(EnabledChannels(arg))
        /\ \A i \in 1..Len(ret.s) :
              /\ Cell(ret.s[i], Col(Channel))
                    = ChannelLabel(EnabledChannels(arg)[i])
              /\ Cell(ret.s[i], Col(BleachingEnergy))
                    = Get(EnabledChannels(arg)[i], "bleachingEnergy", EmptyStr)
              /\ \A c \in (1..22) \ {Col(BlockType), Col(Channel),
                                     Col(Magnification), Col(BleachingEnergy)} :
                     Cell(ret.s[i], c) = EmptyStr

IsSet(v) == v.t = "str" /\ v.s # <<>>

\* C6: for every step whose kind is neither Erase nor RunCycle (also an
\* unrecognized or missing kind), process_block returns exactly one row in
\* which StepKind and Magnification are set, CycleNumber is empty, and every
\* other column is empty.
C6_OneRowForOtherKinds ==
    (call = "process_block" /\ ~IsEraseStep(arg) /\ ~IsRunCycleBlock(arg)) =>
        /\ ret.t = "list"
        /\ Len(ret.s) = 1
        /\ IsSet(Cell(ret.s[1], Col(BlockType)))
        /\ IsSet(Cell(ret.s[1], Col(Magnification)))
        /\ \A c \in (1..22) \ {Col(BlockType), Col(Magnification)} :
               Cell(ret.s[1], c) = EmptyStr

\* The schema positions a step of this kind fills.
UsedColumns(step) ==
    IF IsEraseStep(step)
    THEN {Col(RunCycleNumber), Col(BlockType), Col(Channel), Col(Magnification),
          Col(BleachingEnergy)}
    ELSE IF IsRunCycleBlock(step) THEN 1..22
    ELSE {Col(RunCycleNumber), Col(BlockType), Col(Magnification)}

C8_ActualExposure ==
    (call = "process_block" /\ IsRunCycleBlock(arg) /\ ret.t = "list"
        /\ Len(ret.s) = 5) =>
        \A i \in 1..5 :
            LET dc   == Get(Get(arg, "reagents", EmptyDict),
                            channel_order[i].key, EmptyDict)
                ref  == Get(dc, "bucketId", EmptyStr)
                base == Get(Get(bucket_lookup, ref, EmptyDict),
                            "exposureTime", PyNone)
                coef == Get(Get(dc, "exposureTimeAndCoefficient", EmptyDict),
                            "timeCoefficient", PyNone)
            IN Truthy(ref) =>
                   IF Truthy(base) /\ Truthy(coef)
                   THEN /\ Cell(ret.s[i], Col(ReagentExposure)) = base
                        /\ Cell(ret.s[i], Col(Coefficient)) = coef
                        /\ Cell(ret.s[i], Col(ActualExposure))
                              = PyFloat100(base.n * coef.n)
                   ELSE Cell(ret.s[i], Col(ActualExposure)) = EmptyStr

----------------------------------------------------------------------------
(* Claims on group separation (checked under SpecRows)                     *)

\* The CycleNumber of row i ("" when the row has no such column).
CycleNumberOf(rows, i) ==
    RowGet(rows[i], StepTableSchema[Col(RunCycleNumber)], EmptyStr)

BlankRowLike(row) == [j \in 1..Len(row) |-> [k |-> row[j].k, v |-> EmptyStr]]

\* Row i has a non-empty CycleNumber and the row immediately before it has
\* a different, non-empty CycleNumber.
NewGroupAfterOtherGroup(rows, i) ==
    /\ i > 1
    /\ CycleNumberOf(rows, i) # EmptyStr
    /\ CycleNumberOf(rows, i - 1) # EmptyStr
    /\ CycleNumberOf(rows, i) # CycleNumberOf(rows, i - 1)

\* The rows from i on, with one blank row before each row that starts a new
\* group right after another group.
RECURSIVE SeparatedAdjacentGroups(_, _)
SeparatedAdjacentGroups(rows, i) ==
    IF i > Len(rows) THEN <<>>
    ELSE (IF NewGroupAfterOtherGroup(rows, i)
          THEN <<BlankRowLike(rows[i]), rows[i]>>
          ELSE <<rows[i]>>)
             \o SeparatedAdjacentGroups(rows, i + 1)

\* C9: add_blank_lines_between_run_cycles inserts one all-blank row (same
\* keys) before a row exactly when that row has a non-empty CycleNumber and
\* the immediately preceding row has a different, non-empty CycleNumber;
\* nothing is inserted before the first row, between rows sharing a
\* CycleNumber, or next to a row whose CycleNumber is empty.
C9_SeparatorBetweenAdjacentGroups ==
    call = "add_blank_lines_between_run_cycles" =>
        ret = SeparatedAdjacentGroups(arg, 1)

\* C10: group separation is idempotent: add_blank_lines_between_run_cycles
\* applied to its own output returns that output unchanged.
C10_SeparationIdempotent ==
    pc = "separated twice" => ret = arg

----------------------------------------------------------------------------
(* Claims on the Reagent Index (checked under SpecBlock)                   *)

\* The reagent identifiers the links of the document give to a slot
\* reference.
LinkedReagents(doc, ref) ==
    UNION {{Get(Get(doc["procedures"][p]["reagents"][i], "reagentId",
                    EmptyDict), "itemId", PyNone) :
              i \in {j \in 1..Len(doc["procedures"][p]["reagents"]) :
                        Get(doc["procedures"][p]["reagents"][j], "bucketId",
                            PyNone) = ref}} :
           p \in 1..Len(doc["procedures"])}

CatalogueIds(doc) ==
    {Get(doc["reagents"][i], "id", PyNone) : i \in 1..Len(doc["reagents"])}

\* The slot reference is not registered, or registered only with reagent
\* identifiers the catalogue lacks.
Unresolved(doc, ref) == LinkedReagents(doc, ref) \cap CatalogueIds(doc) = {}

\* The columns of a row that are filled from the Reagent Index.
ReagentColumns ==
    {Col(Antigen), Col(Clone), Col(ReagentExposure), Col(ActualExposure),
     Col(ValidatedFor), Col(Antibody), Col(AntibodyType), Col(HostSpecies),
     Col(Isotype), Col(Manufacturer), Col(OrderNumber), Col(Species),
     Col(Name)}

\* The slot record of the step at canonical position i.
SlotOf(step, i) ==
    Get(Get(step, "reagents", EmptyDict), channel_order[i].key, EmptyDict)

\* C11: Reagent Index lookup is total: whatever slot reference a RunCycle
\* step carries (registered, registered with a reagent identifier missing
\* from the catalogue, or never registered), resolving it yields a record
\* and does not raise, and for an unresolved slot every reagent-derived
\* column of the row is at its empty default.
C11_LookupTotal ==
    (call = "process_block" /\ IsRunCycleBlock(arg)) =>
        /\ ~Raised(get_run_cycle_channel_info(arg, bucket_lookup))
        /\ ret.t = "list" =>
              \A i \in 1..Len(ret.s) :
                  Unresolved(data, Get(SlotOf(arg, i), "bucketId", EmptyStr)) =>
                      \A c \in ReagentColumns : Cell(ret.s[i], c) = EmptyStr

\* A slot registered with an identifier the catalogue lacks has been turned
\* into a row that shows the step's own settings.
C11_Witness ==
    /\ call = "process_block"
    /\ IsRunCycleBlock(arg)
    /\ ret.t = "list"
    /\ Len(ret.s) = 5
    /\ Get(SlotOf(arg, 2), "bucketId", EmptyStr) = bucket2
    /\ Cell(ret.s[2], Col(DilutionFactor)) = PyInt(50)
    /\ Cell(ret.s[2], Col(Antigen)) = EmptyStr

----------------------------------------------------------------------------
(* Claims on one whole conversion (checked under SpecScenario)             *)

\* The positions of the all-blank rows of a table.
SeparatorRows(rows) == {i \in 1..Len(rows) : rows[i] = BlankRowLike(rows[i])}

\* C12: one conversion of a document with a single procedure whose steps are
\* [Scan (2x), DefineRegions, Scan (20x), Erase with 3 enabled channels,
\* RestainNuclei, RunCycle, RunCycle] produces a Steps table of 17 data rows
\* plus exactly one separator row, the separator lying between the five rows
\* of the first RunCycle and the five rows of the second.
C12_ScenarioTable ==
    /\ pc # "raised"
    /\ pc = "separated" =>
          /\ Len(block_rows) = 18
          /\ SeparatorRows(block_rows) = {13}
          /\ \A i \in 8..12 : CycleNumberOf(block_rows, i) = PyInt(1)
          /\ \A i \in 14..18 : CycleNumberOf(block_rows, i) = PyInt(2)

----------------------------------------------------------------------------
(* Claims on the frame of the Step Sequencer (checked under SpecSeq)       *)

\* C13: the Step Sequencer passes never mutate their input: after
\* add_numbers_to_run_cycles and after propagate_magnification every step
\* record owned by the document is as it was before the call (no attribute
\* added or modified), the annotations existing only in the returned list.
C13_InputNotMutated ==
    call \in {"add_numbers_to_run_cycles", "propagate_magnification"} =>
        data["procedures"][1]["blocks"] = arg

----------------------------------------------------------------------------
(* Claims on missing optional fields (checked under SpecBlock)             *)

\* C14: step dispatch never raises on a missing optional field: for every
\* Erase step whose enabled channel lacks a fluorochrome label or a
\* bleaching energy, and every RunCycle step whose slot lacks any per-slot
\* setting, process_block returns rows instead of raising (the step's
\* magnification being set).
C14_DispatchNeverRaises ==
    (/\ call = "process_block"
     /\ IsEraseStep(arg) \/ IsRunCycleBlock(arg)
     /\ Truthy(Get(arg, "magnification", PyNone))) =>
        ret.t = "list"

----------------------------------------------------------------------------
(* Claims on the record accessors (checked under SpecRecords)              *)

\* The value a row shows under a field name.
Field(row, name) == RowGet(row, format_column_header(name), PyNone)

\* C15: a missing field is never fatal in the experiment, region-of-interest
\* and sample accessors: for a record lacking any of its fields,
\* process_experiment, process_rois and process_sample return a row and do
\* not raise, and the row holds the documented default of a missing field.
C15_MissingFieldNotFatal ==
    call \in {"process_experiment", "process_rois", "process_sample"} =>
        /\ ret.t = "list"
        /\ call = "process_experiment" /\ "name" \notin DOMAIN arg[1] =>
               Field(ret.s[1].s, ExperimentName) = Str(UnknownExperiment)
        /\ call = "process_rois" /\ "name" \notin DOMAIN arg[1] =>
               Field(ret.s[1].s, ROIName) = Str(UnknownROI)
        /\ call = "process_sample" /\ "organ" \notin DOMAIN arg[1] =>
               Field(ret.s[1].s, Organ) = Str(UnknownOrgan)

----------------------------------------------------------------------------
(* Claims on header formatting (checked under SpecHeader)                  *)

\* There is a camel-case word boundary between s[i] and s[i + 1]: a
\* lowercase letter followed by an uppercase letter, or an uppercase letter
\* followed by an uppercase letter that starts a lowercase word.
WordBoundary(s, i) ==
    /\ i < Len(s)
    /\ \/ s[i] \in Lower /\ s[i + 1] \in Upper
       \/ /\ s[i] \in Upper
          /\ s[i + 1] \in Upper
          /\ i + 2 <= Len(s)
          /\ s[i + 2] \in Lower

\* s from index i on, with a line break at every word boundary.
RECURSIVE BrokenAtBoundaries(_, _)
BrokenAtBoundaries(s, i) ==
    IF i > Len(s) THEN <<>>
    ELSE (IF WordBoundary(s, i) THEN <<s[i], "\n">> ELSE <<s[i]>>)
             \o BrokenAtBoundaries(s, i + 1)

\* C16: format_column_header inserts a line break at every camel-case word
\* boundary of a field name and changes nothing else, so acronyms stay
\* intact and a single word or the empty string is returned unchanged.
C16_BreakAtEveryBoundary ==
    call = "format_column_header" =>
        ret = Str(BrokenAtBoundaries(arg.s, 1))

\* C17: header formatting is injective on the 22-column step schema: two
\* distinct field names of the schema get distinct display forms, so
\* format_dict_headers never merges two columns of a row.
C17_NoCollisionInSchema ==
    (/\ call = "format_dict_headers"
     /\ \A i \in 1..Len(arg.s) : arg.s[i].k \in StepFieldNames) =>
        /\ Len(ret.s) = Len(arg.s)
        /\ \A i, j \in 1..Len(ret.s) : i # j => ret.s[i].k # ret.s[j].k
        /\ \A i \in 1..Len(ret.s) : ret.s[i].v = arg.s[i].v

\* A row with the columns Antibody and AntibodyType has been formatted and
\* still has two columns.
C17_Witness ==
    /\ call = "format_dict_headers"
    /\ RowKeys(arg.s) = <<Antibody, AntibodyType>>
    /\ Len(ret.s) = 2
    /\ ret.s[1].k = Antibody

----------------------------------------------------------------------------
(* Claims on the bleaching time (checked under SpecBlock)                  *)

BleachingTimeHeader ==
    <<"B", "l", "e", "a", "c", "h", "i", "n", "g", "\n", "T", "i", "m", "e">>

\* C18: for a RunCycle step, every channel record returned by
\* get_run_cycle_channel_info contains a BleachingTime field holding that
\* slot's bleachingTime setting, and the rows built by process_block carry a
\* "Bleaching\nTime" column placed between "Bleaching\nEnergy" and
\* "Validated\nFor".
C18_BleachingTime ==
    (call = "process_block" /\ IsRunCycleBlock(arg) /\ ret.t = "list") =>
        LET info == get_run_cycle_channel_info(arg, bucket_lookup).s
        IN /\ \A i \in 1..Len(info) :
                  /\ "BleachingTime" \in DOMAIN info[i].ChannelInfo
                  /\ Truthy(Get(SlotOf(arg, i), "bucketId", EmptyStr)) =>
                         info[i].ChannelInfo["BleachingTime"]
                             = Get(SlotOf(arg, i), "bleachingTime", EmptyStr)
           /\ \A i \in 1..Len(ret.s) :
                  \E c \in 1..(Len(ret.s[i]) - 2) :
                      /\ ret.s[i][c].k = StepTableSchema[Col(BleachingEnergy)]
                      /\ ret.s[i][c + 1].k = BleachingTimeHeader
                      /\ ret.s[i][c + 2].k = StepTableSchema[Col(ValidatedFor)]

----------------------------------------------------------------------------
(* Claims on the Reagent Index of several links (checked under SpecIndex)  *)

\* The catalogue entry with the given identifier, an empty record if none.
CatalogueEntry(doc, rid) ==
    IF \E i \in 1..Len(doc["reagents"]) : doc["reagents"][i]["id"] = rid
    THEN doc["reagents"][CHOOSE i \in 1..Len(doc["reagents"]) :
                             doc["reagents"][i]["id"] = rid]
    ELSE EmptyDict

\* The links of all procedures in document order.
RECURSIVE AllLinks(_, _)
AllLinks(doc, p) ==
    IF p > Len(doc["procedures"]) THEN <<>>
    ELSE doc["procedures"][p]["reagents"] \o AllLinks(doc, p + 1)

\* The reagent identifier of the last link of the slot in document order.
LastLinked(doc, ref) ==
    LET links == AllLinks(doc, 1)
        last == CHOOSE i \in 1..Len(links) :
                    /\ links[i]["bucketId"] = ref
                    /\ \A j \in (i + 1)..Len(links) : links[j]["bucketId"] # ref
    IN links[last]["reagentId"]["itemId"]

IsLinked(doc, ref) ==
    \E i \in 1..Len(AllLinks(doc, 1)) : AllLinks(doc, 1)[i]["bucketId"] = ref

\* C19: get_antigen_clone_by_bucket returns the pair (antigen, clone) of the
\* reagent for every slot present in the index built by build_bucket_lookup,
\* and returns None (without raising) for a slot that is not in the index.
C19_AntigenCloneByBucket ==
    call = "get_antigen_clone_by_bucket" =>
        IF arg \in DOMAIN bucket_lookup
        THEN /\ ret.t = "list"
             /\ ret.s = <<Get(bucket_lookup[arg], "antigen", EmptyStr),
                          Get(bucket_lookup[arg], "clone", EmptyStr)>>
        ELSE ret = PyNone


\* C20: when the same slot reference is linked more than once, within one
\* procedure or across procedures, the Reagent Index maps it to the reagent
\* of the last link in document order.
C20_LastLinkWins ==
    (call = "build_bucket_lookup" /\ ret.t = "dict") =>
        \A ref \in {bucket1, bucket2} :
            IsLinked(arg, ref) =>
                /\ ref \in DOMAIN ret.s
                /\ ret.s[ref] =
                       LET r == CatalogueEntry(arg, LastLinked(arg, ref))
                       IN IF r = EmptyDict THEN EmptyDict
                          ELSE CatalogueFields(r)

\* A slot linked twice in the first procedure and again in the second, the
\* three links naming different reagents in turn.
C20_Witness ==
    /\ call = "build_bucket_lookup"
    /\ ret.t = "dict"
    /\ Len(arg["procedures"]) = 2
    /\ \E ref \in {bucket1, bucket2} :
           LET first == arg["procedures"][1]["reagents"]
               second == arg["procedures"][2]["reagents"]
           IN /\ Len(first) = 2
              /\ first[1]["bucketId"] = ref
              /\ first[2]["bucketId"] = ref
              /\ first[1]["reagentId"] # first[2]["reagentId"]
              /\ Len(second) >= 1
              /\ second[Len(second)]["bucketId"] = ref
              /\ second[Len(second)]["reagentId"] # first[2]["reagentId"]
              /\ ret.s[ref]
                     = CatalogueFields(CatalogueEntry(arg,
                           second[Len(second)]["reagentId"]["itemId"]))

----------------------------------------------------------------------------
(* Claims on the order of the two passes (checked under SpecOrder)         *)

\* C21: cycle numbering and magnification propagation commute: numbering
\* then propagating yields the same annotated steps (same cycle numbers and
\* magnifications, same order) as propagating then numbering.
C21_PassesCommute ==
    pc = "propagate_number" => blocks = ret

\* Both orders have run on a list in which a RunCycle step without a
\* magnification of its own follows a step that has one.
C21_Witness ==
    /\ pc = "propagate_number"
    /\ \E i \in 2..Len(arg) :
           /\ IsRunCycleBlock(arg[i])
           /\ "magnification" \notin DOMAIN arg[i]
           /\ Truthy(Get(arg[i - 1], "magnification", PyNone))
           /\ blocks[i]["runCycleNumber"] = ret[i]["runCycleNumber"]
           /\ blocks[i]["magnification"] = arg[i - 1]["magnification"]

----------------------------------------------------------------------------
(* Claims on catalogue entries with missing fields (under SpecCatalogue)   *)

\* The key build_bucket_lookup stores a catalogue field under.
IndexKey ==
    [antigen |-> "antigen", clone |-> "clone", exposureTime |-> "exposureTime",
     supportedFixationMethods |-> "supportedFixationMethods",
     antibody |-> "Antibody", antibodyType |-> "AntibodyType",
     hostSpecies |-> "HostSpecies", isotype |-> "Isotype",
     manufacturer |-> "Manufacturer", name |-> "Name",
     orderNumber |-> "OrderNumber", species |-> "Species"]

\* The placeholder of a catalogue field.
Placeholder(field) ==
    CASE field = "antigen" -> Str(Unknown)
      [] field = "clone" -> Str(NA)
      [] field = "exposureTime" -> PyInt(0)
      [] OTHER -> EmptyStr

\* C22: build_bucket_lookup defaults every absent field of a catalogue
\* entry to its placeholder and does not raise for any catalogue entry,
\* whichever of its fields (including the identifier) are missing.
C22_CatalogueDefaults ==
    call = "build_bucket_lookup" =>
        /\ ~Raised(ret)
        /\ LET r == arg["reagents"][1]
           IN "id" \in DOMAIN r =>
                  \A field \in DOMAIN IndexKey :
                      ret.s[bucket1][IndexKey[field]]
                          = Get(r, field, Placeholder(field))

----------------------------------------------------------------------------
(* Claims on label sanitization (checked under SpecLabel)                  *)

\* C23: label sanitization removes exactly the leading prefix token and
\* nothing else: for every value "<Prefix>_<rest>" the output is <rest> in
\* full, also when <rest> contains an underscore or the prefix text.
C23_OnlyLeadingPrefixRemoved ==
    pc = "sanitized" => ret = Str(data.rest)

----------------------------------------------------------------------------
(* Claims on the web upload (checked under SpecUpload)                     *)

\* The processing of an uploaded .json file failed.
ProcessingFailed ==
    /\ call \in {"upload_file", "cleanup"}
    /\ "file" \in DOMAIN arg.files
    /\ allowed_file(arg.files["file"].filename)
    /\ Raised(process_json_to_excel(arg.files["file"].content).ret)

\* C24: when processing of an uploaded .json file fails, upload_file ends
\* the request by flashing one descriptive error message and redirecting
\* to the index page; no exception escapes the handler.
C24_FailureFlashesAndRedirects ==
    (pc = "handled" /\ ProcessingFailed) =>
        /\ ~Raised(ret)
        /\ ret.t = "redirect"
        /\ ret.s = "index"
        /\ Len(data.flashed) = 1

----------------------------------------------------------------------------
(* Claims on the used disk space (checked under SpecRecords)               *)

\* A byte count in kilobytes of 1024 bytes, rounded to three decimals, as
\* text: thousandths of a kilobyte, rounded to the nearest.
KiloBytes1024(bytes) ==
    LET thousandths == (bytes * 2000 + 1024) \div 2048
    IN IntToStr(thousandths \div 1000) \o <<".">>
           \o <<Digits[((thousandths \div 100) % 10) + 1],
                Digits[((thousandths \div 10) % 10) + 1],
                Digits[(thousandths % 10) + 1]>>
           \o <<" ", "K", "B">>

\* C26: get_used_disk_space converts the stored byte count to kilobytes with
\* 1 KB = 1024 bytes and renders it rounded to three decimals, so 182645
\* bytes gives "178.364 KB".
C26_KilobytesOf1024 ==
    (call = "process_experiment" /\ ret.t = "list") =>
        /\ Field(ret.s[1].s, UsedDiskSpace)
               = Str(KiloBytes1024(arg[1]["usedDiskspace"].n))
        /\ arg[1]["usedDiskspace"] = PyInt(182645) =>
               Field(ret.s[1].s, UsedDiskSpace)
                   = Str(<<"1", "7", "8", ".", "3", "6", "4", " ", "K", "B">>)

----------------------------------------------------------------------------
(* Claims on what group separation leaves alone (checked under SpecRows)   *)

AllBlank(row) == \A c \in 1..Len(row) : row[c].v = EmptyStr

\* out is inp with all-blank rows put in: every row of out is the next row
\* of inp, or an all-blank row.
RECURSIVE OnlyBlankRowsInserted(_, _)
OnlyBlankRowsInserted(out, inp) ==
    IF out = <<>> THEN inp = <<>>
    ELSE \/ /\ inp # <<>>
            /\ Head(out) = Head(inp)
            /\ OnlyBlankRowsInserted(Tail(out), Tail(inp))
         \/ /\ AllBlank(Head(out))
            /\ OnlyBlankRowsInserted(Tail(out), inp)

\* C27: add_blank_lines_between_run_cycles only inserts rows: removing the
\* inserted all-blank rows from its output gives back the input rows
\* unchanged and in their original order, and a separator is never the
\* first or the last row of the output.
C27_OnlyInsertsRows ==
    call = "add_blank_lines_between_run_cycles" =>
        /\ OnlyBlankRowsInserted(ret, arg)
        /\ Len(ret) >= Len(arg)
        /\ arg = <<>> => ret = <<>>
        /\ arg # <<>> =>
               /\ ret[1] = arg[1]
               /\ ret[Len(ret)] = arg[Len(arg)]

\* An output with two separators between three groups of rows.
C27_Witness ==
    /\ call = "add_blank_lines_between_run_cycles"
    /\ Len(arg) = 3
    /\ Len(ret) = 5
    /\ AllBlank(ret[2])
    /\ AllBlank(ret[4])
    /\ ~AllBlank(ret[1])
    /\ ~AllBlank(ret[3])
    /\ ~AllBlank(ret[5])

----------------------------------------------------------------------------
(* Claims on the Steps table of several procedures (under SpecProcedures)  *)

\* The sequenced steps of all procedures in document order.
RECURSIVE AllSteps(_, _)
AllSteps(doc, p) ==
    IF p > Len(doc["procedures"]) THEN <<>>
    ELSE propagate_magnification(
             add_numbers_to_run_cycles(doc["procedures"][p]["blocks"]))
             \o AllSteps(doc, p + 1)

\* For every gathered row, the index of the step it belongs to.
RECURSIVE RowOwners(_, _, _)
RowOwners(steps, j, lookup) ==
    IF j > Len(steps) THEN <<>>
    ELSE [i \in 1..Len(process_block(steps[j], lookup).s) |-> j]
             \o RowOwners(steps, j + 1, lookup)

\* The positions of the rows of a table that are not all-blank.
RECURSIVE DataPositions(_, _)
DataPositions(rows, i) ==
    IF i > Len(rows) THEN <<>>
    ELSE (IF AllBlank(rows[i]) THEN <<>> ELSE <<i>>)
             \o DataPositions(rows, i + 1)

\* C28: in the Steps table of a document with several procedures, whenever
\* the rows of two different RunCycle steps follow each other with no other
\* step's rows between them, exactly one separator row lies between the two
\* groups, also when the first step is the last RunCycle of one procedure
\* and the second the first RunCycle of the next procedure.
C28_SeparatorBetweenProcedures ==
    (pc = "separated" /\ call = "add_blank_lines_between_run_cycles") =>
        LET steps == AllSteps(data, 1)
            owner == RowOwners(steps, 1, bucket_lookup)
            pos   == DataPositions(ret, 1)
        IN /\ Len(owner) = Len(arg)
           /\ Len(pos) = Len(arg)
           /\ \A i \in 1..(Len(arg) - 1) :
                  (/\ owner[i] # owner[i + 1]
                   /\ IsRunCycleBlock(steps[owner[i]])
                   /\ IsRunCycleBlock(steps[owner[i + 1]]))
                      => pos[i + 1] - pos[i] = 2

----------------------------------------------------------------------------
(* Claims on slots without a reference (checked under SpecBlock)           *)

\* The columns a row of a RunCycle step fills from the step itself.
StepColumns ==
    {StepTableSchema[Col(RunCycleNumber)], StepTableSchema[Col(BlockType)],
     StepTableSchema[Col(Channel)], StepTableSchema[Col(Magnification)]}

\* C29: for a RunCycle step with a non-empty reagents payload, a canonical
\* slot that is absent from the step or whose slot reference is empty yields
\* a row in which every column other than CycleNumber, StepKind, Channel
\* and Magnification is empty, even when the step carries dilution,
\* incubation, coefficient or bleaching settings for that slot.
C29_SlotWithoutReferenceIsBlank ==
    (/\ call = "process_block"
     /\ IsRunCycleBlock(arg)
     /\ Get(arg, "reagents", EmptyDict) # EmptyDict
     /\ ret.t = "list") =>
        /\ Len(ret.s) = Len(channel_order)
        /\ \A i \in 1..Len(channel_order) :
               ~Truthy(Get(SlotOf(arg, i), "bucketId", EmptyStr)) =>
                   \A c \in 1..Len(ret.s[i]) :
                       ret.s[i][c].k \notin StepColumns =>
                           ret.s[i][c].v = EmptyStr

\* The rows of a step whose slots carry dilution, incubation, coefficient
\* and bleaching settings and an empty slot reference.
C29_Witness ==
    /\ call = "process_block"
    /\ IsRunCycleBlock(arg)
    /\ ret.t = "list"
    /\ Len(ret.s) = Len(channel_order)
    /\ \A i \in 1..Len(channel_order) :
           /\ "bucketId" \in DOMAIN SlotOf(arg, i)
           /\ SlotOf(arg, i)["bucketId"] = EmptyStr
           /\ Get(SlotOf(arg, i), "dilutionFactor", PyNone) = PyInt(50)
           /\ "exposureTimeAndCoefficient" \in DOMAIN SlotOf(arg, i)
           /\ Cell(ret.s[i], Col(DilutionFactor)) = EmptyStr
           /\ Cell(ret.s[i], Col(Channel)) # EmptyStr

----------------------------------------------------------------------------
(* Claims on repeated numbering (checked under SpecTwice)                  *)

\* The steps of a list that carry a cycle number.
Numbered(bs) == {i \in 1..Len(bs) : "runCycleNumber" \in DOMAIN bs[i]}

\* C30: cycle numbering is idempotent: applying add_numbers_to_run_cycles
\* again to an already numbered step list leaves every step's cycle number
\* and the set of numbered steps unchanged.
C30_NumberingIdempotent ==
    pc = "numbered twice" =>
        /\ Len(ret) = Len(arg)
        /\ Numbered(ret) = Numbered(arg)
        /\ \A i \in Numbered(arg) :
               ret[i]["runCycleNumber"] = arg[i]["runCycleNumber"]
        /\ data["procedures"][proc_i]["blocks"] = arg

\* A list with two RunCycle steps and another step was numbered twice.
C30_Witness ==
    /\ pc = "numbered twice"
    /\ Cardinality(Numbered(arg)) = 2
    /\ Len(arg) > 2
    /\ \E i \in Numbered(ret) : ret[i]["runCycleNumber"] = PyInt(2)

====
